---- MODULE Spec2Model ----
(***************************************************************************)
(* A model of the HashDAG storage and mutation engine (naomijub/voxel-dag). *)
(*                                                                          *)
(* The build-time configuration of src/src/constants.rs is scaled down so  *)
(* that the table can be explored exhaustively: the volume has side 2^4    *)
(* instead of 2^17, a page holds 16 words instead of 512, a level has 2 or *)
(* 4 buckets instead of 2^10 or 2^16, and the 128-page block of the pool   *)
(* and of the pool mask is a 4-page block.  As in the source, the levels   *)
(* of the color tree are low levels (HI_LEVELS <= COLOR_TREE_LEVELS).      *)
(* Every derived constant is computed from these exactly as the source     *)
(* computes it.                                                             *)
(*                                                                          *)
(* A 32-bit word is the pair <<high 16 bits, low 16 bits>>: TLC's integers  *)
(* are 32-bit signed, and a leaf word may hold 0xffff_ffff.                 *)
(***************************************************************************)
EXTENDS Integers, Sequences, FiniteSets, TLC

(* ------------------------------------------------------------------ *)
(* constants.rs                                                         *)
(* ------------------------------------------------------------------ *)
PAGE_LEN == 16
SUPPORTED_LEVELS == 4
COLOR_TREE_LEVELS == SUPPORTED_LEVELS - 3
LEAF_LEVELS == 2
LEAF_LEVEL == SUPPORTED_LEVELS - LEAF_LEVELS
HI_BUCKET_LEN == 32
LO_BUCKET_LEN == 48
HI_PAGES_PER_BUCKET == HI_BUCKET_LEN \div PAGE_LEN
LO_PAGES_PER_BUCKET == LO_BUCKET_LEN \div PAGE_LEN
BUCKETS_PER_HI_LEVEL == 2
BUCKETS_PER_LO_LEVEL == 4
HI_LEVELS == 1
LO_LEVELS == SUPPORTED_LEVELS - HI_LEVELS
TOTAL_HI_BUCKETS == HI_LEVELS * BUCKETS_PER_HI_LEVEL
TOTAL_LO_BUCKETS == LO_LEVELS * BUCKETS_PER_LO_LEVEL
TOTAL_BUCKETS == TOTAL_HI_BUCKETS + TOTAL_LO_BUCKETS
TOTAL_PAGES == TOTAL_HI_BUCKETS * HI_PAGES_PER_BUCKET + TOTAL_LO_BUCKETS * LO_PAGES_PER_BUCKET
TOTAL_VIRT_SPACE == TOTAL_PAGES * PAGE_LEN
\* The pool, and the pool mask, come in blocks of this many pages (128 in the source).
BLOCK_PAGES == 4
BLOCK_LEN == PAGE_LEN * BLOCK_PAGES
\* tracking.rs: the page table mask is one byte.
LUT_MASK_BITS == 8
POOL_MASK_BIT_LEN == PAGE_LEN
LUT_MASK_BIT_LEN == TOTAL_PAGES \div LUT_MASK_BITS
\* The all-ones word !0 where it is a sentinel of an integer-valued table
\* (page table entry, full node pointer, import visit).
UNSET == -1
\* Option::None of an Option<u32>.
None == -2

(* ------------------------------------------------------------------ *)
(* 32-bit words                                                         *)
(* ------------------------------------------------------------------ *)
HALF == 65536
W(n) == <<n \div HALF, n % HALF>>
ZERO == <<0, 0>>
ONES == <<HALF - 1, HALF - 1>>
Pow2[b \in 0..16] == IF b = 0 THEN 1 ELSE 2 * Pow2[b - 1]
PopTable[n \in 0..255] == IF n = 0 THEN 0 ELSE (n % 2) + PopTable[n \div 2]
Pop16(h) == PopTable[h % 256] + PopTable[h \div 256]
\* u32::count_ones
count_ones(w) == Pop16(w[1]) + Pop16(w[2])
\* `word as u8`
AsU8(w) == w[2] % 256
\* `word >> 8`, below 2^24
Shr8(w) == w[1] * 256 + (w[2] \div 256)
\* `(count << 8) | mask` in u32 arithmetic: the shift drops the bits above 2^32.
HeaderWord(mask, count) == <<(count \div 256) % HALF, (count % 256) * 256 + mask>>
TestBit(w, b) == IF b < 16 THEN (w[2] \div Pow2[b]) % 2 = 1 ELSE (w[1] \div Pow2[b - 16]) % 2 = 1
\* A word read as a virtual pointer.  Every word of at least TOTAL_VIRT_SPACE
\* names a page that does not exist; they are all read as TOTAL_VIRT_SPACE.
VptrOf(w) == IF w[1] > 0 \/ w[2] >= TOTAL_VIRT_SPACE THEN TOTAL_VIRT_SPACE ELSE w[2]

\* A local of the source (`let x = e;`): e is computed once and x stands for its
\* value in what follows.
Let(e, F(_)) == F(e)

Ok(v) == [ok |-> TRUE, v |-> v, err |-> ""]
Err(e) == [ok |-> FALSE, v |-> None, err |-> e]

(* ------------------------------------------------------------------ *)
(* utils.rs: address arithmetic and hashing                             *)
(* ------------------------------------------------------------------ *)
new_bucket_len_idx_u32(level, bucket) ==
  IF level < HI_LEVELS
  THEN level * BUCKETS_PER_HI_LEVEL + bucket
  ELSE TOTAL_HI_BUCKETS + (level - HI_LEVELS) * BUCKETS_PER_LO_LEVEL + bucket

new_bucket_len_idx(level, bucket) == new_bucket_len_idx_u32(level, bucket)

buckets_per_level(level) == IF level < HI_LEVELS THEN BUCKETS_PER_HI_LEVEL ELSE BUCKETS_PER_LO_LEVEL

new_bucket_len(level) == IF level < HI_LEVELS THEN HI_BUCKET_LEN ELSE LO_BUCKET_LEN

\* hash & (buckets - 1), the buckets being a power of two
bucket_from_hash(level, hash) == hash % buckets_per_level(level)

HI == TOTAL_HI_BUCKETS * HI_BUCKET_LEN

\* A faulty variant that does not look at the offset: C20 must tell it from the
\* code's.
new_vptr_unbounded(level, bucket, offset_bucket) ==
  IF level >= HI_LEVELS /\ BUCKETS_PER_LO_LEVEL <= bucket
    THEN Err("Creating pointer: Bucket too large!")
  ELSE Let((IF level < HI_LEVELS
            THEN new_bucket_len_idx_u32(level, bucket) * HI_BUCKET_LEN
            ELSE HI + ((level - HI_LEVELS) * BUCKETS_PER_LO_LEVEL + bucket) * LO_BUCKET_LEN)
           + offset_bucket, LAMBDA idx :
         IF idx < TOTAL_VIRT_SPACE
         THEN Ok(idx)
         ELSE Err("Creating pointer: Virtual pointer is out of bounds!"))

new_vptr(level, bucket, offset_bucket) ==
  IF level < HI_LEVELS /\ HI_BUCKET_LEN <= offset_bucket
    THEN Err("Creating pointer: Bucket offset out of bounds! (Top level)")
  ELSE IF level >= HI_LEVELS /\ LO_BUCKET_LEN <= offset_bucket
    THEN Err("Creating pointer: Bucket offset out of bounds! (Low level)")
  ELSE IF level >= HI_LEVELS /\ BUCKETS_PER_LO_LEVEL <= bucket
    THEN Err("Creating pointer: Bucket too large!")
  ELSE Let((IF level < HI_LEVELS
            THEN new_bucket_len_idx_u32(level, bucket) * HI_BUCKET_LEN
            ELSE HI + ((level - HI_LEVELS) * BUCKETS_PER_LO_LEVEL + bucket) * LO_BUCKET_LEN)
           + offset_bucket, LAMBDA idx :
         IF idx < TOTAL_VIRT_SPACE
         THEN Ok(idx)
         ELSE Err("Creating pointer: Virtual pointer is out of bounds!"))

\* A faulty variant that takes every pointer for one of the hi levels: C22 must
\* tell it from the code's.
vptr_to_lvl_hi(vptr) == vptr \div (BUCKETS_PER_HI_LEVEL * HI_BUCKET_LEN)

vptr_to_lvl(vptr) ==
  IF vptr < HI
  THEN vptr \div (BUCKETS_PER_HI_LEVEL * HI_BUCKET_LEN)
  ELSE (vptr - HI) \div (BUCKETS_PER_LO_LEVEL * LO_BUCKET_LEN) + HI_LEVELS

\* count_leaves: the set bits of the 64-bit leaf mask
count_leaves(leaf) == count_ones(leaf[1]) + count_ones(leaf[2])

\* The two hashes are MurmurHash3 finalizers in the source.  The table reads a
\* hash only through bucket_from_hash, and what it relies on is that the hash
\* is a function of the node's words (and of their number); the model keeps
\* that and replaces the mixing rounds by a positional sum that fits TLC's
\* integers.
MixWord(w) == (w[1] % 251) * 7 + (w[2] % 241) * 3 + count_ones(w)
RECURSIVE MixFrom(_, _)
MixFrom(node, i) ==
  IF i > Len(node) THEN Len(node)
  ELSE (2 * i + 1) * MixWord(node[i]) + MixFrom(node, i + 1)
murmur_hash_32(node) == MixFrom(node, 1) % 4096
murmur_hash_64(leaf) == (5 * MixWord(leaf[1]) + 11 * MixWord(leaf[2])) % 4096
hash_leaf(leaf) == murmur_hash_64(leaf)
hash_interior(node) == murmur_hash_32(node)

\* descend: shift the path left and inject the child's bits (x: bit 2, y: bit 1, z: bit 0)
descend(path, child) ==
  << path[1] * 2 + ((child \div 4) % 2),
     path[2] * 2 + ((child \div 2) % 2),
     path[3] * 2 + (child % 2) >>

(* ------------------------------------------------------------------ *)
(* hash_table/basic.rs: the paged store                                 *)
(*                                                                      *)
(* A table is the record                                                *)
(*   pool                the word array (pool[i + 1] is word i)         *)
(*   lut, hi             the page table and its count of pages          *)
(*   bucket_len          the used prefix of every bucket                *)
(*   full_node_pointers  the full node of every level                   *)
(*   pool_mask, page_table_mask   the tracker's masks, as the sets of   *)
(*                       their set bits                                 *)
(* ------------------------------------------------------------------ *)
PoolLen(t) == Len(t.pool)

OVERFLOW == "panic: attempt to add with overflow"

\* the values of a usize, scaled as the table is: 0..(USIZE - 1)
USIZE == 1024

\* HashTable::blank with SharedHashDAG::blank's default tracker; the capacity is
\* a usize and `capacity += ..` is an unchecked add, which panics in a build
\* with overflow checks and wraps in a build without. The error carries the
\* number it formats in its value.
blank(capacity, overflow_checks) ==
  LET sum == capacity + ((BLOCK_LEN - (capacity % BLOCK_LEN)) % BLOCK_LEN)
      rounded == sum % USIZE
  IN IF sum >= USIZE /\ overflow_checks THEN Err(OVERFLOW)
     ELSE IF TOTAL_VIRT_SPACE < rounded \/ rounded = 0
     THEN [Err("Cannot allocate {capacity} words to a pool!") EXCEPT !.v = rounded]
     ELSE Ok([ pool |-> [i \in 1..rounded |-> ZERO],
               lut |-> [p \in 0..(TOTAL_PAGES - 1) |-> UNSET],
               hi |-> 0,
               bucket_len |-> [b \in 0..(TOTAL_BUCKETS - 1) |-> 0],
               full_node_pointers |-> [l \in 0..LEAF_LEVEL |-> UNSET],
               pool_mask |-> {},
               page_table_mask |-> {} ])

is_allocated(t, page) ==
  IF page \in 0..(TOTAL_PAGES - 1)
  THEN Ok(t.lut[page] # UNSET)
  ELSE Err("Trying to lookup a non-existing page.")

\* pool_idx with the two sentinel texts exchanged
pool_idx_unbound(t, vptr) ==
  LET page == vptr \div PAGE_LEN
      offset == vptr % PAGE_LEN
  IN Let(is_allocated(t, page), LAMBDA alloc :
       IF ~alloc.ok THEN alloc
       ELSE IF alloc.v
         THEN Let(t.lut[page] + offset, LAMBDA idx :
                IF idx < t.hi * PAGE_LEN
                THEN Ok(idx)
                ELSE Err("Virtual pointer points to unallocated memory."))
         ELSE Err("Virtual pointer points to out of bound memory."))

pool_idx(t, vptr) ==
  LET page == vptr \div PAGE_LEN
      offset == vptr % PAGE_LEN
  IN Let(is_allocated(t, page), LAMBDA alloc :
       IF ~alloc.ok THEN alloc
       ELSE IF alloc.v
         THEN Let(t.lut[page] + offset, LAMBDA idx :
                IF idx < t.hi * PAGE_LEN
                THEN Ok(idx)
                ELSE Err("Virtual pointer points to out of bound memory."))
         ELSE Err("Virtual pointer points to unallocated memory."))

bucket_len_of(t, level, bucket) == t.bucket_len[new_bucket_len_idx(level, bucket)]

full_node_ptr(t, level) ==
  IF level \in 0..LEAF_LEVEL
  THEN Ok(t.full_node_pointers[level])
  ELSE Err("Trying a full node lookup with a non-existing level.")

\* A slice pool[idx .. idx + n): indexing past the pool panics.
PANIC == "panic: index out of range"
PoolSlice(t, idx, n) ==
  IF idx + n <= PoolLen(t)
  THEN Ok([k \in 1..n |-> t.pool[idx + k]])
  ELSE Err(PANIC)

\* HashDAG::get / leaf / interior (lib.rs)
get(t, vptr) ==
  Let(pool_idx(t, vptr), LAMBDA pi :
    IF ~pi.ok THEN pi
    ELSE IF pi.v < PoolLen(t) THEN Ok(t.pool[pi.v + 1]) ELSE Err(PANIC))

leaf(t, vptr) ==
  Let(pool_idx(t, vptr), LAMBDA pi :
    IF ~pi.ok THEN pi ELSE PoolSlice(t, pi.v, 2))

interior(t, vptr) ==
  Let(pool_idx(t, vptr), LAMBDA pi :
    IF ~pi.ok THEN pi
    ELSE IF pi.v >= PoolLen(t) THEN Err(PANIC)
    ELSE PoolSlice(t, pi.v, count_ones(<<0, AsU8(t.pool[pi.v + 1])>>) + 1))

\* find_leaf: a sequential scan in steps of two words from the pool index of
\* the bucket's first word.
RECURSIVE find_leaf_from(_, _, _, _, _, _)
find_leaf_from(t, vptr, pidx, offset, bucket_len, node) ==
  IF offset >= bucket_len THEN Ok(None)
  ELSE Let(PoolSlice(t, pidx + offset, 2), LAMBDA s :
         IF ~s.ok THEN s
         ELSE IF s.v = node THEN Ok(vptr + offset)
         ELSE find_leaf_from(t, vptr, pidx, offset + 2, bucket_len, node))

find_leaf(t, bucket, bucket_len, node) ==
  IF new_bucket_len(LEAF_LEVEL) < bucket_len
  THEN Err("Trying to find a leaf with an overflowing bucket size.")
  ELSE Let(new_vptr(LEAF_LEVEL, bucket, 0), LAMBDA vp :
         IF ~vp.ok THEN vp
         ELSE Let(pool_idx(t, vp.v), LAMBDA pi :
                IF ~pi.ok THEN pi
                ELSE find_leaf_from(t, vp.v, pi.v, 0, bucket_len, node)))

\* find_interior's closure find_in_page: hop from header to header
RECURSIVE find_in_page(_, _, _, _, _, _)
find_in_page(t, base_ptr, base_idx, offset, upper_bound, node) ==
  IF offset >= upper_bound THEN Ok(None)
  ELSE LET idx == base_idx + offset
       IN Let(PoolSlice(t, idx, Len(node)), LAMBDA s :
            IF ~s.ok THEN s
            ELSE IF s.v = node THEN Ok(base_ptr + offset)
            ELSE IF idx >= PoolLen(t) THEN Err(PANIC)
            ELSE find_in_page(t, base_ptr, base_idx,
                              offset + count_ones(<<0, AsU8(t.pool[idx + 1])>>) + 1,
                              upper_bound, node))

\* the walker over the full pages: the first page with a hit
RECURSIVE find_in_pages(_, _, _, _, _, _)
find_in_pages(t, base_ptr, base_idx, offset, clipped, node) ==
  IF offset >= clipped THEN Ok(None)
  ELSE Let(find_in_page(t, base_ptr, base_idx, offset, offset + PAGE_LEN, node), LAMBDA r :
         IF ~r.ok \/ r.v # None THEN r
         ELSE find_in_pages(t, base_ptr, base_idx, offset + PAGE_LEN, clipped, node))

find_interior(t, level, bucket, bucket_len, node) ==
  IF new_bucket_len(level) < bucket_len
  THEN Err("Trying to find an interior node with an overflowing bucket size.")
  ELSE Let(new_vptr(level, bucket, 0), LAMBDA vp :
         IF ~vp.ok THEN vp
         ELSE Let(pool_idx(t, vp.v), LAMBDA pi :
                IF ~pi.ok THEN pi
                ELSE LET overflow == bucket_len % PAGE_LEN
                         clipped == bucket_len - overflow
                     IN Let(find_in_pages(t, vp.v, pi.v, 0, clipped, node), LAMBDA found :
                          IF ~found.ok THEN found
                          ELSE IF found.v = None /\ Len(node) <= overflow
                            THEN find_in_page(t, vp.v, pi.v, clipped, bucket_len, node)
                            ELSE found)))

(* ------------------------------------------------------------------ *)
(* validation.rs: node validation                                       *)
(* A node is a sequence of words; `strict` says it came as Strict(..).  *)
(* ------------------------------------------------------------------ *)
Valid == [valid |-> TRUE, msg |-> ""]
Invalid(msg) == [valid |-> FALSE, msg |-> msg]

\* LevelInfo::new
LevelInfo(level) ==
  [is_color_tree_level |-> COLOR_TREE_LEVELS <= level,
   is_last_interior |-> level + 1 = LEAF_LEVEL]

validate_leaf(strict, node) ==
  IF strict /\ node = <<ZERO, ZERO>>
  THEN Ok(Invalid("Invalid node: The leaf mask contains no leaves!"))
  ELSE Ok(Valid)

\* the two loops that sum the children's voxels: an error of a read ends the sum
RECURSIVE SumLeaves(_, _, _)
SumLeaves(t, node, i) ==
  IF i > Len(node) THEN Ok(0)
  ELSE Let(leaf(t, VptrOf(node[i])), LAMBDA l :
         IF ~l.ok THEN l
         ELSE Let(SumLeaves(t, node, i + 1), LAMBDA rest :
                IF ~rest.ok THEN rest ELSE Ok(count_leaves(l.v) + rest.v)))

RECURSIVE SumCounts(_, _, _)
SumCounts(t, node, i) ==
  IF i > Len(node) THEN Ok(0)
  ELSE Let(get(t, VptrOf(node[i])), LAMBDA g :
         IF ~g.ok THEN g
         ELSE Let(SumCounts(t, node, i + 1), LAMBDA rest :
                IF ~rest.ok THEN rest ELSE Ok(Shr8(g.v) + rest.v)))

\* A faulty variant that looks at the length of a Strict interior only: C14 must
\* tell it from the code's.
validate_interior_uncounted(t, strict, node, level_info) ==
  IF ~strict THEN Ok(Valid)
  ELSE IF Len(node) = 1 \/ 9 < Len(node)
    THEN Ok(Invalid("Invalid node: The interior node's child mask is invalid."))
  ELSE Ok(Valid)

validate_interior(t, strict, node, level_info) ==
  IF ~strict THEN Ok(Valid)
  ELSE IF Len(node) = 1 \/ 9 < Len(node)
    THEN Ok(Invalid("Invalid node: The interior node's child mask is invalid."))
  ELSE Let(IF level_info.is_color_tree_level
           THEN IF level_info.is_last_interior
                THEN SumLeaves(t, node, 2)
                ELSE SumCounts(t, node, 2)
           ELSE Ok(0), LAMBDA voxel_count :
         IF ~voxel_count.ok THEN voxel_count
         ELSE IF Len(node) = 0 THEN Err(PANIC)   \* interior[0] of an empty slice
         ELSE IF Shr8(node[1]) < voxel_count.v
           THEN Ok(Invalid("Invalid node: The voxel count is too low!"))
         ELSE IF Shr8(node[1]) = voxel_count.v THEN Ok(Valid)
         ELSE Ok(Invalid("Invalid node: The voxel count is too high!")))

\* Node::validated_as_leaf / validated_as_interior: Ok(node) or the error
validated_as_leaf(strict, node) ==
  Let(validate_leaf(strict, node), LAMBDA r :
    IF ~r.ok THEN r ELSE IF r.v.valid THEN Ok(node) ELSE Err(r.v.msg))

validated_as_interior(t, strict, node, level_info) ==
  Let(validate_interior(t, strict, node, level_info), LAMBDA r :
    IF ~r.ok THEN r ELSE IF r.v.valid THEN Ok(node) ELSE Err(r.v.msg))

(* ------------------------------------------------------------------ *)
(* tracking.rs: BasicTracker                                            *)
(* ------------------------------------------------------------------ *)
UNDERFLOW == "panic: attempt to subtract with overflow"

\* A faulty variant that marks the page of the pointer in place of the page of the
\* pool the words went to: C3 must tell it from the code's.
register_virtual_page(t, vptr, start, end, overflow_checks) ==
  LET idx == vptr \div POOL_MASK_BIT_LEN
  IN IF end = 0 /\ overflow_checks THEN Err(UNDERFLOW)
     ELSE IF end = 0 \/ start \div POOL_MASK_BIT_LEN # (end - 1) \div POOL_MASK_BIT_LEN
       THEN Err("Cannot register a range spanning beyond a page.")
     ELSE Ok([t EXCEPT !.pool_mask = @ \cup {idx},
                       !.page_table_mask = @ \cup {(vptr \div PAGE_LEN) \div LUT_MASK_BIT_LEN}])

\* register(vptr, range) with range = start..end. `range.end - 1` is an unchecked
\* usize subtraction: of an end of 0 it panics in a build with overflow checks
\* and wraps to usize::MAX, a page no start is in, in a build without. The pool
\* mask has TOTAL_PAGES bits.
register(t, vptr, start, end, overflow_checks) ==
  LET idx == start \div POOL_MASK_BIT_LEN
  IN IF end = 0 /\ overflow_checks THEN Err(UNDERFLOW)
     ELSE IF end = 0 \/ idx # (end - 1) \div POOL_MASK_BIT_LEN
       THEN Err("Cannot register a range spanning beyond a page.")
     ELSE IF idx >= TOTAL_PAGES THEN Err(PANIC)
     ELSE Ok([t EXCEPT !.pool_mask = @ \cup {idx},
                       !.page_table_mask = @ \cup {(vptr \div PAGE_LEN) \div LUT_MASK_BIT_LEN}])

clear(t) == [t EXCEPT !.pool_mask = {}, !.page_table_mask = {}]

(* ------------------------------------------------------------------ *)
(* shared_hash_dag.rs and lib.rs: the stores of add_leaf / add_interior *)
(* ------------------------------------------------------------------ *)
\* PageLUT::allocate is two stores: the entry, then hi
lut_store_entry(t, page) == [t EXCEPT !.lut[page] = t.hi * PAGE_LEN]
lut_store_hi(t) == [t EXCEPT !.hi = @ + 1]

\* A faulty variant that never finds the pool too short: C18 must tell it from the
\* code's.
out_of_pool_never(t) == FALSE

\* `self.pool.len() < self.lut.hi() * PAGE_LEN` of SharedHashDAG::allocate
out_of_pool(t) == PoolLen(t) < t.hi * PAGE_LEN

\* SharedHashDAG::allocate: allocate first, then look whether the pool has the room
allocate(t, page) ==
  Let(lut_store_hi(lut_store_entry(t, page)), LAMBDA t2 :
    IF out_of_pool(t2)
    THEN [ok |-> FALSE, v |-> None, t |-> t2,
          err |-> "No space is left to allocate! Consider resizing your pool."]
    ELSE [ok |-> TRUE, v |-> None, t |-> t2, err |-> ""])

\* one word of pool_copy_from
pool_store(t, idx, word) == [t EXCEPT !.pool[idx + 1] = word]

bucket_len_store(t, idx, len) == [t EXCEPT !.bucket_len[idx] = len]

OkT(v, t) == [ok |-> TRUE, v |-> v, err |-> "", t |-> t]
ErrT(e, t) == [ok |-> FALSE, v |-> None, err |-> e, t |-> t]

(* ------------------------------------------------------------------ *)
(* lib.rs: add_leaf and add_interior, store by store                    *)
(*                                                                      *)
(* An insertion in progress is the record m: the table, the node, the   *)
(* locals of the function and the position pc in its body.  AddStep is  *)
(* one store (or the reads up to the next store); RunAdd is the whole   *)
(* call.                                                                *)
(* ------------------------------------------------------------------ *)
AddFail(m, e) == [m EXCEPT !.pc = "fail", !.err = e]

\* the entry of add_leaf (is_leaf) or add_interior: validation
add_begin(t, is_leaf, level, strict, node, hash) ==
  LET m0 == [pc |-> "vptr", t |-> t, is_leaf |-> is_leaf, level |-> level,
             node |-> node, hash |-> hash, bucket_len_idx |-> 0, bucket_len |-> 0,
             vptr |-> 0, pool_idx |-> 0, written |-> 0, err |-> ""]
  IN Let(IF is_leaf THEN validated_as_leaf(strict, node)
         ELSE validated_as_interior(t, strict, node, LevelInfo(level)), LAMBDA val :
       IF val.ok THEN m0 ELSE AddFail(m0, val.err))

\* add_leaf: the locals up to the allocation
AddLeafVptr(m) ==
  LET bucket == bucket_from_hash(LEAF_LEVEL, m.hash)
      idx == new_bucket_len_idx(LEAF_LEVEL, bucket)
      len == m.t.bucket_len[idx]
  IN Let(new_vptr(LEAF_LEVEL, bucket, len), LAMBDA vp :
       IF ~vp.ok THEN AddFail(m, vp.err)
       ELSE [m EXCEPT !.bucket_len_idx = idx, !.bucket_len = len, !.vptr = vp.v,
                      !.pc = IF len % PAGE_LEN = 0 THEN "alloc_lut" ELSE "pool_idx"])

\* add_interior without `would_overflow`: the node goes behind the last, wherever
\* the page ends
AddInteriorVptr_behind(m) ==
  LET bucket == bucket_from_hash(m.level, m.hash)
      idx == new_bucket_len_idx(m.level, bucket)
      len == m.t.bucket_len[idx]
  IN Let(new_vptr(m.level, bucket, len), LAMBDA vp :
       IF ~vp.ok THEN AddFail(m, vp.err)
       ELSE [m EXCEPT !.bucket_len_idx = idx, !.bucket_len = len, !.vptr = vp.v,
                      !.pc = IF len % PAGE_LEN = 0 THEN "alloc_lut" ELSE "pool_idx"])

\* add_interior with a skip of a whole page: a node that does not fit in the rest
\* of the page starts PAGE_LEN words behind the last, not at the next page
AddInteriorVptr_page_further(m) ==
  LET node_len == Len(m.node)
      bucket == bucket_from_hash(m.level, m.hash)
      idx == new_bucket_len_idx(m.level, bucket)
      len0 == m.t.bucket_len[idx]
      page_space_left == PAGE_LEN - (len0 % PAGE_LEN)
      would_overflow == page_space_left < node_len
      new_page == PAGE_LEN = page_space_left \/ would_overflow
      len == IF would_overflow THEN len0 + PAGE_LEN ELSE len0
  IN Let(new_vptr(m.level, bucket, len), LAMBDA vp :
       IF ~vp.ok THEN AddFail(m, vp.err)
       ELSE [m EXCEPT !.bucket_len_idx = idx, !.bucket_len = len, !.vptr = vp.v,
                      !.pc = IF new_page THEN "alloc_lut" ELSE "pool_idx"])

\* add_interior: the locals up to the allocation; a node that does not fit in
\* the rest of the page starts the next page
AddInteriorVptr(m) ==
  LET node_len == Len(m.node)
      bucket == bucket_from_hash(m.level, m.hash)
      idx == new_bucket_len_idx(m.level, bucket)
      len0 == m.t.bucket_len[idx]
      page_space_left == PAGE_LEN - (len0 % PAGE_LEN)
      would_overflow == page_space_left < node_len
      new_page == PAGE_LEN = page_space_left \/ would_overflow
      len == IF would_overflow THEN len0 + page_space_left ELSE len0
  IN Let(new_vptr(m.level, bucket, len), LAMBDA vp :
       IF ~vp.ok THEN AddFail(m, vp.err)
       ELSE [m EXCEPT !.bucket_len_idx = idx, !.bucket_len = len, !.vptr = vp.v,
                      !.pc = IF new_page THEN "alloc_lut" ELSE "pool_idx"])

\* A faulty variant that goes to the store of the bucket length before the words
\* of the node are written: C9 must tell it from the code's.
LengthBeforeWords(m) == "len"

\* what follows the lookup of the pool index: the words of the node, then the
\* bucket length
WordsBeforeLength(m) == IF Len(m.node) = 0 THEN "len" ELSE "write"

AddStep(m) ==
  CASE m.pc = "vptr" -> IF m.is_leaf THEN AddLeafVptr(m) ELSE AddInteriorVptr(m)
    [] m.pc = "alloc_lut" ->
         [m EXCEPT !.t = lut_store_entry(m.t, m.vptr \div PAGE_LEN), !.pc = "alloc_hi"]
    [] m.pc = "alloc_hi" ->
         Let(lut_store_hi(m.t), LAMBDA t2 :
           IF out_of_pool(t2)
           THEN [m EXCEPT !.t = t2, !.pc = "fail",
                   !.err = "No space is left to allocate! Consider resizing your pool."]
           ELSE [m EXCEPT !.t = t2, !.pc = "pool_idx"])
    [] m.pc = "pool_idx" ->
         Let(pool_idx(m.t, m.vptr), LAMBDA pi :
           IF ~pi.ok THEN AddFail(m, pi.err)
           ELSE [m EXCEPT !.pool_idx = pi.v, !.pc = WordsBeforeLength(m)])
    [] m.pc = "write" ->
         IF m.pool_idx + m.written >= PoolLen(m.t) THEN AddFail(m, PANIC)
         ELSE [m EXCEPT !.t = pool_store(m.t, m.pool_idx + m.written, m.node[m.written + 1]),
                        !.written = @ + 1,
                        !.pc = IF m.written + 1 = Len(m.node) THEN "len" ELSE "write"]
    [] m.pc = "len" ->
         Let((IF m.is_leaf THEN m.t.bucket_len[m.bucket_len_idx] ELSE m.bucket_len)
             + Len(m.node), LAMBDA new_len :
         Let(bucket_len_store(m.t, m.bucket_len_idx, new_len), LAMBDA t2 :
           IF new_len < new_bucket_len(m.level)
           THEN [m EXCEPT !.t = t2, !.pc = "register"]
           ELSE [m EXCEPT !.t = t2, !.pc = "fail",
                   !.err = IF m.is_leaf THEN "Overflowing bucket on leaf level!"
                           ELSE "Overflowing bucket on level!"]))
    [] m.pc = "register" ->
         Let(register(m.t, m.vptr, m.pool_idx, m.pool_idx + Len(m.node), TRUE), LAMBDA r :
           IF r.ok THEN [m EXCEPT !.t = r.v, !.pc = "done"] ELSE AddFail(m, r.err))
    [] OTHER -> m

RECURSIVE RunAdd(_)
RunAdd(m) == IF m.pc \in {"done", "fail"} THEN m ELSE RunAdd(AddStep(m))

AddResult(m) == IF m.pc = "done" THEN OkT(m.vptr, m.t) ELSE ErrT(m.err, m.t)

add_leaf(t, strict, node, hash) ==
  AddResult(RunAdd(add_begin(t, TRUE, LEAF_LEVEL, strict, node, hash)))

add_interior(t, level, strict, node, hash) ==
  AddResult(RunAdd(add_begin(t, FALSE, level, strict, node, hash)))

(* ------------------------------------------------------------------ *)
(* lib.rs: find_or_add_leaf and find_or_add_interior                    *)
(* ------------------------------------------------------------------ *)
find_or_add_leaf(t, strict, node0) ==
  Let(validated_as_leaf(strict, node0), LAMBDA val :
  Let(hash_leaf(node0), LAMBDA hash :
  Let(bucket_from_hash(LEAF_LEVEL, hash), LAMBDA bucket :
  Let(leaf(t, t.full_node_pointers[LEAF_LEVEL]), LAMBDA full :
  Let(new_vptr(LEAF_LEVEL, bucket, 0), LAMBDA vp :
  Let(is_allocated(t, vp.v \div PAGE_LEN), LAMBDA alloc :
  Let(find_leaf(t, bucket, bucket_len_of(t, LEAF_LEVEL, bucket), node0), LAMBDA found :
    IF ~val.ok THEN ErrT(val.err, t)
    ELSE IF ~full.ok THEN ErrT(PANIC, t)
    ELSE IF node0 = full.v THEN OkT(t.full_node_pointers[LEAF_LEVEL], t)
    ELSE IF ~vp.ok THEN ErrT(vp.err, t)
    ELSE IF ~alloc.ok THEN ErrT(alloc.err, t)
    ELSE IF ~alloc.v THEN add_leaf(t, FALSE, node0, hash)
    ELSE IF ~found.ok THEN ErrT(found.err, t)
    ELSE IF found.v # None THEN OkT(found.v, t)
    ELSE add_leaf(t, FALSE, node0, hash))))))))

find_or_add_interior(t, level, strict, node0) ==
  Let(validated_as_interior(t, strict, node0, LevelInfo(level)), LAMBDA val :
  Let(hash_interior(node0), LAMBDA hash :
  Let(bucket_from_hash(level, hash), LAMBDA bucket :
  Let(full_node_ptr(t, level), LAMBDA fptr :
  Let(interior(t, fptr.v), LAMBDA full :
  Let(new_vptr(level, bucket, 0), LAMBDA vp :
  Let(is_allocated(t, vp.v \div PAGE_LEN), LAMBDA alloc :
  Let(find_interior(t, level, bucket, bucket_len_of(t, level, bucket), node0), LAMBDA found :
    IF ~val.ok THEN ErrT(val.err, t)
    ELSE IF ~fptr.ok THEN ErrT(fptr.err, t)
    ELSE IF ~full.ok THEN ErrT(PANIC, t)
    ELSE IF node0 = full.v THEN OkT(fptr.v, t)
    ELSE IF ~vp.ok THEN ErrT(vp.err, t)
    ELSE IF ~alloc.ok THEN ErrT(alloc.err, t)
    ELSE IF ~alloc.v THEN add_interior(t, level, FALSE, node0, hash)
    ELSE IF ~found.ok THEN ErrT(found.err, t)
    ELSE IF found.v # None THEN OkT(found.v, t)
    ELSE add_interior(t, level, FALSE, node0, hash)))))))))

(* ------------------------------------------------------------------ *)
(* shared_hash_dag.rs: the full nodes and with_capacity                 *)
(* ------------------------------------------------------------------ *)
FULL_LEAF == <<ONES, ONES>>

add_full_leaf(t) ==
  Let(add_leaf(t, FALSE, FULL_LEAF, hash_leaf(FULL_LEAF)), LAMBDA r :
    IF r.ok THEN OkT(r.v, [r.t EXCEPT !.full_node_pointers[LEAF_LEVEL] = r.v])
    ELSE ErrT(PANIC, r.t))

Pow8[n \in 0..SUPPORTED_LEVELS] == IF n = 0 THEN 1 ELSE 8 * Pow8[n - 1]

\* A faulty variant that leaves the voxel count out of the header: C21 must tell
\* it from the code's.
add_full_interior_uncounted(t, level) ==
  LET child == W(t.full_node_pointers[level + 1])
  IN Let(<< <<0, 255>> >> \o [k \in 1..8 |-> child], LAMBDA node :
     Let(add_interior(t, level, FALSE, node, hash_interior(node)), LAMBDA r :
       IF r.ok THEN OkT(r.v, [r.t EXCEPT !.full_node_pointers[level] = r.v])
       ELSE ErrT(PANIC, r.t)))

add_full_interior(t, level) ==
  LET child == W(t.full_node_pointers[level + 1])
      header == IF COLOR_TREE_LEVELS <= level
                THEN HeaderWord(255, Pow8[SUPPORTED_LEVELS - level])
                ELSE <<0, 255>>
  IN Let(<<header>> \o [k \in 1..8 |-> child], LAMBDA node :
     Let(add_interior(t, level, FALSE, node, hash_interior(node)), LAMBDA r :
       IF r.ok THEN OkT(r.v, [r.t EXCEPT !.full_node_pointers[level] = r.v])
       ELSE ErrT(PANIC, r.t)))

RECURSIVE add_full_interiors(_, _)
add_full_interiors(t, level) ==
  IF level < 0 THEN OkT(None, t)
  ELSE Let(add_full_interior(t, level), LAMBDA r :
         IF ~r.ok THEN r ELSE add_full_interiors(r.t, level - 1))

with_capacity(capacity) ==
  Let(blank(capacity, TRUE), LAMBDA b :
    IF ~b.ok THEN ErrT(b.err, None)
    ELSE Let(add_full_leaf(b.v), LAMBDA l :
           IF ~l.ok THEN l ELSE add_full_interiors(l.t, LEAF_LEVEL - 1)))

(* ------------------------------------------------------------------ *)
(* basic_dag.rs: OctVox;  editing/shapes.rs: AABB and Sphere            *)
(* ------------------------------------------------------------------ *)
\* OctVox::new
OctVox(level, path) == [depth |-> SUPPORTED_LEVELS - level, path |-> path]

\* OctVox::descended
descended(self, child) == [depth |-> self.depth - 1, path |-> descend(self.path, child)]

\* OctVox::is_child with `<` in place of `<=`: a node would be its own child
is_child_or_self(self, other) ==
  IF self.depth < other.depth THEN FALSE
  ELSE LET diff == self.depth - other.depth
       IN [r \in 1..3 |-> other.path[r] \div Pow2[diff]] = self.path

\* OctVox::is_child: `v >> diff` on every row of the other path
is_child(self, other) ==
  IF self.depth <= other.depth THEN FALSE
  ELSE LET diff == self.depth - other.depth
       IN [r \in 1..3 |-> other.path[r] \div Pow2[diff]] = self.path

\* impl From<OctVox> for AABB: the half-open cube of the node
AABB_from(ov) ==
  [min |-> [i \in 1..3 |-> ov.path[i] * Pow2[ov.depth]],
   max |-> [i \in 1..3 |-> ov.path[i] * Pow2[ov.depth] + Pow2[ov.depth]]]

\* Shape::new for the two shapes
AABB_new(centroid, extent) ==
  [kind |-> "AABB",
   min |-> [i \in 1..3 |-> centroid[i] - extent],
   max |-> [i \in 1..3 |-> centroid[i] + extent]]

Sphere_new(centroid, extent) ==
  [kind |-> "Sphere", centroid |-> centroid, r_sqr |-> extent * extent]

AABB_collides(self, edit) ==
  ~(\E i \in 1..3 : edit.max[i] <= self.min[i] \/ self.max[i] <= edit.min[i])

AABB_contains(self, edit) ==
  \A i \in 1..3 : self.min[i] <= edit.min[i] /\ self.max[i] >= edit.max[i]

\* the per-axis distance of Sphere::collides
SphereAxis(c, lo, hi) == IF c < lo THEN c - lo ELSE IF hi < c THEN c - hi ELSE 0

Sphere_collides(self, edit) ==
  LET x == SphereAxis(self.centroid[1], edit.min[1], edit.max[1])
      y == SphereAxis(self.centroid[2], edit.min[2], edit.max[2])
      z == SphereAxis(self.centroid[3], edit.min[3], edit.max[3])
  IN 0 < self.r_sqr - x * x - y * y - z * z

Max(a, b) == IF a < b THEN b ELSE a

\* the farthest corner of Sphere::will_be_full / will_be_empty
SphereFar(self, edit) ==
  LET far(i) == Max((edit.min[i] - self.centroid[i]) * (edit.min[i] - self.centroid[i]),
                    (edit.max[i] - self.centroid[i]) * (edit.max[i] - self.centroid[i]))
  IN far(1) + far(2) + far(3)

collides(shape, edit) ==
  IF shape.kind = "AABB" THEN AABB_collides(shape, edit) ELSE Sphere_collides(shape, edit)

\* Faulty variants of the two short-circuits, which take a cube the shape only
\* touches for one it holds: C5 and C2 must tell them from the code's.
will_be_full_on_collision(shape, after, edit) ==
  after = "Link" /\ collides(shape, edit)

will_be_empty_on_collision(shape, after, edit) ==
  after = "Unlink" /\ collides(shape, edit)

\* will_be_full of a sphere with `min` in place of `max`: the nearest corner
will_be_full_nearest(shape, after, edit) ==
  after = "Link" /\
  IF shape.kind = "AABB" THEN AABB_contains(shape, edit)
  ELSE LET near(i) == IF (edit.min[i] - shape.centroid[i]) * (edit.min[i] - shape.centroid[i])
                          < (edit.max[i] - shape.centroid[i]) * (edit.max[i] - shape.centroid[i])
                       THEN (edit.min[i] - shape.centroid[i]) * (edit.min[i] - shape.centroid[i])
                       ELSE (edit.max[i] - shape.centroid[i]) * (edit.max[i] - shape.centroid[i])
       IN near(1) + near(2) + near(3) < shape.r_sqr

will_be_full(shape, after, edit) ==
  after = "Link" /\
  IF shape.kind = "AABB" THEN AABB_contains(shape, edit)
  ELSE SphereFar(shape, edit) < shape.r_sqr

will_be_empty(shape, after, edit) ==
  after = "Unlink" /\
  IF shape.kind = "AABB" THEN AABB_contains(shape, edit)
  ELSE SphereFar(shape, edit) < shape.r_sqr

(* ------------------------------------------------------------------ *)
(* editing/inner.rs and editing/mod.rs                                  *)
(* ------------------------------------------------------------------ *)
\* NodeState and NodeState::edit_shape
NodeState(level, vptr, path) == [level |-> level, vptr |-> vptr, path |-> path]
edit_shape(node) == AABB_from(OctVox(node.level, node.path))

\* interior_from: the present children in order behind the header; the empty
\* sequence stands for Option::None
RECURSIVE ChildWords(_, _)
ChildWords(children, child) ==
  IF child > 8 THEN <<>>
  ELSE (IF children[child] = None THEN <<>> ELSE <<W(children[child])>>)
       \o ChildWords(children, child + 1)

RECURSIVE ChildMask(_, _)
ChildMask(children, child) ==
  IF child > 8 THEN 0
  ELSE (IF children[child] = None THEN 0 ELSE Pow2[child - 1]) + ChildMask(children, child + 1)

\* A faulty variant that leaves the voxel count out of the header: C6 must tell
\* it from the code's.
interior_from_uncounted(children, voxel_count) ==
  LET mask == ChildMask(children, 1)
  IN IF mask # 0
     THEN <<HeaderWord(mask, 0)>> \o ChildWords(children, 1)
     ELSE <<>>

interior_from(children, voxel_count) ==
  LET mask == ChildMask(children, 1)
  IN IF mask # 0
     THEN <<HeaderWord(mask, voxel_count)>> \o ChildWords(children, 1)
     ELSE <<>>

\* the result of an edit step: the table, the node's pointer (or None) and its voxels
EditOk(t, v, c) == [ok |-> TRUE, err |-> "", t |-> t, v |-> v, c |-> c]
EditErr(t, e) == [ok |-> FALSE, err |-> e, t |-> t, v |-> None, c |-> 0]

\* a word from the set of its set bits
RECURSIVE HalfFromBits(_, _, _)
HalfFromBits(bits, base, b) ==
  IF b > 15 THEN 0
  ELSE (IF (base + b) \in bits THEN Pow2[b] ELSE 0) + HalfFromBits(bits, base, b + 1)
WordFromBits(bits) == <<HalfFromBits(bits, 16, 0), HalfFromBits(bits, 0, 0)>>

\* edit_part with the two descents exchanged: the bottom child first
LeafVoxel_swapped(path, leaf_idx, bit) ==
  descend(descend(path, bit % 8), 4 * leaf_idx + (bit \div 8))

\* edit_leaf's edit_part, for all eight upper_idx: bit base_idx + bottom_idx of
\* word leaf_idx is the voxel at descend(descend(path, upper_idx), bottom_idx)
LeafVoxel(path, leaf_idx, bit) ==
  descend(descend(path, 4 * leaf_idx + (bit \div 8)), bit % 8)

\* A faulty variant that flips the bits the shape collides with: C4 must tell it
\* from the code's.
EditedWordFlipped(operation, shape, path, leaf_idx, word) ==
  WordFromBits({b \in 0..31 :
     IF collides(shape, AABB_from(OctVox(SUPPORTED_LEVELS, LeafVoxel(path, leaf_idx, b))))
     THEN ~TestBit(word, b)
     ELSE TestBit(word, b)})

EditedWord(operation, shape, path, leaf_idx, word) ==
  WordFromBits({b \in 0..31 :
     IF collides(shape, AABB_from(OctVox(SUPPORTED_LEVELS, LeafVoxel(path, leaf_idx, b))))
     THEN operation = "Link"
     ELSE TestBit(word, b)})

\* edit_leaf without the comparison with the leaf read: the leaf is appended
\* whether the edit changed it or not
edit_leaf_appending(t, operation, shape, vptr, path) ==
  Let(pool_idx(t, vptr), LAMBDA pi :
  Let(IF vptr = None THEN <<ZERO, ZERO>>
      ELSE <<t.pool[pi.v + 1], t.pool[pi.v + 2]>>, LAMBDA init_leaf :
  Let(<<EditedWord(operation, shape, path, 0, init_leaf[1]),
        EditedWord(operation, shape, path, 1, init_leaf[2])>>, LAMBDA new_leaf :
    IF vptr # None /\ ~pi.ok THEN EditErr(t, pi.err)
    ELSE IF vptr # None /\ pi.v + 2 > PoolLen(t) THEN EditErr(t, PANIC)
    ELSE IF new_leaf = <<ZERO, ZERO>> THEN EditOk(t, None, 0)
    ELSE Let(add_leaf(t, FALSE, new_leaf, hash_leaf(new_leaf)), LAMBDA r :
           IF r.ok THEN EditOk(r.t, r.v, count_leaves(new_leaf)) ELSE EditErr(r.t, r.err)))))

edit_leaf(t, operation, shape, vptr, path) ==
  Let(pool_idx(t, vptr), LAMBDA pi :
  Let(IF vptr = None THEN <<ZERO, ZERO>>
      ELSE <<t.pool[pi.v + 1], t.pool[pi.v + 2]>>, LAMBDA init_leaf :
  Let(<<EditedWord(operation, shape, path, 0, init_leaf[1]),
        EditedWord(operation, shape, path, 1, init_leaf[2])>>, LAMBDA new_leaf :
    IF vptr # None /\ ~pi.ok THEN EditErr(t, pi.err)
    ELSE IF vptr # None /\ pi.v + 2 > PoolLen(t) THEN EditErr(t, PANIC)
    ELSE IF new_leaf = <<ZERO, ZERO>> THEN EditOk(t, None, 0)
    ELSE IF new_leaf = init_leaf THEN EditOk(t, vptr, count_leaves(new_leaf))
    ELSE Let(find_or_add_leaf(t, FALSE, new_leaf), LAMBDA r :
           IF r.ok THEN EditOk(r.t, r.v, count_leaves(new_leaf)) ELSE EditErr(r.t, r.err)))))

\* The three mutually recursive functions of the editor.  edit_interior takes the
\* closure `next` as the flag deep: TRUE for the closure of edit_deep, FALSE for
\* the closure of edit.
RECURSIVE edit_shallow(_, _, _, _), edit_deep(_, _, _, _), edit_interior(_, _, _, _, _)
RECURSIVE EditChildren(_, _, _, _, _, _, _, _)

\* the closure passed by edit: (invalidate, vptr, 0)
NextShallow(t, operation, shape, node) ==
  IF ~collides(shape, edit_shape(node)) THEN EditOk(t, node.vptr, 0)
  ELSE Let(IF node.level = COLOR_TREE_LEVELS
           THEN edit_deep(t, operation, shape, node)
           ELSE edit_shallow(t, operation, shape, node), LAMBDA r :
         IF r.ok THEN EditOk(r.t, r.v, 0) ELSE r)

\* the loop of edit_interior over the eight children.  acc holds the table, the
\* children so far, is_invalidated, voxel_count and the position in the node.
EditChildren(acc, operation, shape, level, path, words, deep, child) ==
  IF child > 7 THEN acc
  ELSE Let(TestBit(words[1], child), LAMBDA child_exists :
       Let(NodeState(level + 1,
                     IF child_exists THEN VptrOf(words[acc.pos]) ELSE None,
                     descend(path, child)), LAMBDA node :
       Let(IF deep THEN edit_deep(acc.t, operation, shape, node)
           ELSE NextShallow(acc.t, operation, shape, node), LAMBDA r :
         IF ~r.ok THEN [acc EXCEPT !.ok = FALSE, !.err = r.err, !.t = r.t]
         ELSE EditChildren(
                [acc EXCEPT !.t = r.t,
                            !.is_invalidated = @ \/ (r.v # node.vptr),
                            !.children[child + 1] = r.v,
                            !.voxel_count = @ + r.c,
                            !.pos = IF child_exists THEN @ + 1 ELSE @],
                operation, shape, level, path, words, deep, child + 1))))

edit_interior(t, operation, shape, node, deep) ==
  LET acc0 == [ok |-> TRUE, err |-> "", t |-> t, is_invalidated |-> FALSE,
               children |-> [c \in 1..8 |-> None], voxel_count |-> 0, pos |-> 2]
  IN Let(IF node.vptr = None THEN Ok(<<ZERO>>) ELSE interior(t, node.vptr), LAMBDA read :
     Let(EditChildren(acc0, operation, shape, node.level, node.path, read.v, deep, 0),
         LAMBDA acc :
     Let(interior_from(acc.children, acc.voxel_count), LAMBDA new :
       IF ~read.ok THEN EditErr(t, read.err)
       ELSE IF ~acc.ok THEN EditErr(acc.t, acc.err)
       ELSE IF ~acc.is_invalidated THEN EditOk(acc.t, node.vptr, acc.voxel_count)
       ELSE IF Len(new) # 0
         THEN Let(find_or_add_interior(acc.t, node.level, FALSE, new), LAMBDA r :
                IF r.ok THEN EditOk(r.t, r.v, acc.voxel_count) ELSE EditErr(r.t, r.err))
       ELSE EditOk(acc.t, None, 0))))

\* SharedHashDAG::edit (the private one, above the color tree)
edit_shallow(t, operation, shape, node) ==
  edit_interior(t, operation, shape, node, FALSE)

edit_deep(t, operation, shape, node) ==
  Let(edit_shape(node), LAMBDA e :
    IF ~collides(shape, e)
    THEN IF node.vptr = None THEN EditOk(t, None, 0)
         ELSE IF node.level = LEAF_LEVEL
           THEN Let(leaf(t, node.vptr), LAMBDA l :
                  IF l.ok THEN EditOk(t, node.vptr, count_leaves(l.v)) ELSE EditErr(t, l.err))
           ELSE Let(get(t, node.vptr), LAMBDA g :
                  IF g.ok THEN EditOk(t, node.vptr, Shr8(g.v)) ELSE EditErr(t, g.err))
    ELSE IF will_be_empty(shape, operation, e) THEN EditOk(t, None, 0)
    ELSE IF will_be_full(shape, operation, e)
      THEN Let(full_node_ptr(t, node.level), LAMBDA f :
             IF f.ok THEN EditOk(t, f.v, Pow8[SUPPORTED_LEVELS - node.level])
             ELSE EditErr(t, f.err))
    ELSE IF node.level = LEAF_LEVEL
      THEN edit_leaf(t, operation, shape, node.vptr, node.path)
    ELSE edit_interior(t, operation, shape, node, TRUE))

\* A faulty variant that hands the old root back where the edit yields no root:
\* C12 must tell it from the code's.
edit_keeping_root(t, vptr, operation, shape) ==
  Let(NodeState(vptr_to_lvl(vptr), vptr, <<0, 0, 0>>), LAMBDA root_node :
  Let(IF COLOR_TREE_LEVELS <= root_node.level
      THEN edit_deep(t, operation, shape, root_node)
      ELSE edit_shallow(t, operation, shape, root_node), LAMBDA r :
    IF ~r.ok THEN ErrT(r.err, r.t)
    ELSE IF r.v = None THEN OkT(vptr, r.t)
    ELSE OkT(r.v, r.t)))

\* Editor::edit
edit(t, vptr, operation, shape) ==
  Let(NodeState(vptr_to_lvl(vptr), vptr, <<0, 0, 0>>), LAMBDA root_node :
  Let(IF COLOR_TREE_LEVELS <= root_node.level
      THEN edit_deep(t, operation, shape, root_node)
      ELSE edit_shallow(t, operation, shape, root_node), LAMBDA r :
    IF ~r.ok THEN ErrT(r.err, r.t)
    ELSE IF r.v = None THEN ErrT("An empty DAG is invalid state.", r.t)
    ELSE OkT(r.v, r.t)))

(* ------------------------------------------------------------------ *)
(* validation.rs: Validator::validate                                   *)
(* ------------------------------------------------------------------ *)
\* the children of one validated interior node: those whose pool index is not
\* yet visited are marked and pushed
RECURSIVE PushChildren(_, _, _, _, _)
PushChildren(t, node, i, visited, new_items) ==
  IF i > Len(node) THEN [ok |-> TRUE, err |-> "", visited |-> visited, items |-> new_items]
  ELSE Let(VptrOf(node[i]), LAMBDA vp :
       Let(pool_idx(t, vp), LAMBDA pi :
         IF ~pi.ok THEN [ok |-> FALSE, err |-> pi.err, visited |-> visited, items |-> new_items]
         ELSE IF pi.v >= PoolLen(t)
           THEN [ok |-> FALSE, err |-> PANIC, visited |-> visited, items |-> new_items]
         ELSE IF pi.v \in visited THEN PushChildren(t, node, i + 1, visited, new_items)
         ELSE PushChildren(t, node, i + 1, visited \cup {pi.v}, Append(new_items, vp))))

\* `while let Some(vptr) = items.pop()` of one interior level
RECURSIVE ValidateLevel(_, _, _, _, _)
ValidateLevel(t, level_info, items, visited, new_items) ==
  IF Len(items) = 0
  THEN [ok |-> TRUE, err |-> "", verdict |-> Valid, visited |-> visited, items |-> new_items]
  ELSE LET vptr == items[Len(items)]
           rest == SubSeq(items, 1, Len(items) - 1)
       IN Let(interior(t, vptr), LAMBDA node :
          Let(validated_as_interior(t, TRUE, node.v, level_info), LAMBDA val :
          Let(PushChildren(t, node.v, 2, visited, new_items), LAMBDA pushed :
            IF ~node.ok
              THEN [ok |-> FALSE, err |-> node.err, verdict |-> Valid,
                    visited |-> visited, items |-> new_items]
            ELSE IF ~val.ok
              THEN [ok |-> TRUE, err |-> "", verdict |-> Invalid(val.err),
                    visited |-> visited, items |-> new_items]
            ELSE IF ~pushed.ok
              THEN [ok |-> FALSE, err |-> pushed.err, verdict |-> Valid,
                    visited |-> visited, items |-> new_items]
            ELSE ValidateLevel(t, level_info, rest, pushed.visited, pushed.items))))

\* A faulty variant that never reads the leaves: C16 must tell it from the code's.
ValidateLeaves_unread(t, items) == Ok(Valid)

RECURSIVE ValidateLeaves(_, _)
ValidateLeaves(t, items) ==
  IF Len(items) = 0 THEN Ok(Valid)
  ELSE Let(leaf(t, items[Len(items)]), LAMBDA l :
       Let(validated_as_leaf(TRUE, l.v), LAMBDA val :
         IF ~l.ok THEN l
         ELSE IF ~val.ok THEN Ok(Invalid(val.err))
         ELSE ValidateLeaves(t, SubSeq(items, 1, Len(items) - 1))))

RECURSIVE ValidateFrom(_, _, _, _)
ValidateFrom(t, level, items, visited) ==
  IF level >= LEAF_LEVEL THEN ValidateLeaves(t, items)
  ELSE Let(ValidateLevel(t, LevelInfo(level), items, visited, <<>>), LAMBDA r :
         IF ~r.ok THEN Err(r.err)
         ELSE IF ~r.verdict.valid THEN Ok(r.verdict)
         ELSE ValidateFrom(t, level + 1, r.items, r.visited))

validate(t, vptr) == ValidateFrom(t, vptr_to_lvl(vptr), <<vptr>>, {})

(* ------------------------------------------------------------------ *)
(* conversion.rs: import and put                                        *)
(* A BasicDAG is [pool |-> sequence of words, levels |-> n]; its        *)
(* root_idx is 0.  visits maps a source index to a pointer or UNSET.    *)
(* ------------------------------------------------------------------ *)
\* deep is the deepest level that put has been called at; adds is the calls of
\* find_or_add_leaf / find_or_add_interior made, each as <<level, source index>>,
\* in the order of the calls
PutOk(t, visits, v, c) ==
  [ok |-> TRUE, err |-> "", t |-> t, visits |-> visits, v |-> v, c |-> c, deep |-> 0,
   adds |-> <<>>]
PutErr(t, visits, e) ==
  [ok |-> FALSE, err |-> e, t |-> t, visits |-> visits, v |-> None, c |-> None, deep |-> 0,
   adds |-> <<>>]

FoundOrAddedFor(r, adds) == [r EXCEPT !.adds = adds]

Deepest(r, level) == [r EXCEPT !.deep = IF @ < level THEN level ELSE @]

\* the frames of put that the stack of the thread holds (the recursion keeps no
\* count of its own), and the end of a call that needs one more
STACK_FRAMES == 8
STACK_OVERFLOW == "abort: stack overflow"

\* the source index held by a word of the source pool
IdxOf(w, len) == IF w[1] > 0 \/ w[2] >= len THEN len ELSE w[2]

\* A faulty variant that reads the two words of a source leaf in the other order:
\* C7 must tell it from the code's.
SourceLeafSwapped(pool, idx) == <<pool[idx + 2], pool[idx + 1]>>

\* the leaf of the source at idx: Leaf([pool[idx], pool[idx + 1]])
SourceLeaf(pool, idx) == <<pool[idx + 1], pool[idx + 2]>>

RECURSIVE put(_, _, _, _, _, _, _, _), PutChildren(_, _, _, _, _, _, _, _)

\* the loop over the child indices pool[idx + 1 ..] (take(children)): acc holds
\* the table, the visits, the node built so far and the voxel count
PutChildren(acc, strict, pool, stop, level, k, last, frames) ==
  IF k > last \/ k >= Len(pool) THEN acc
  ELSE Let(put(acc.t, acc.visits, strict, pool, stop, level + 1,
               IdxOf(pool[k + 1], Len(pool)), frames - 1), LAMBDA r :
         IF ~r.ok THEN Deepest([acc EXCEPT !.ok = FALSE, !.err = r.err, !.t = r.t,
                                           !.visits = r.visits,
                                           !.adds = @ \o r.adds], r.deep)
         ELSE IF COLOR_TREE_LEVELS <= level /\ r.c = None
           THEN Deepest([acc EXCEPT !.ok = FALSE, !.err = PANIC, !.t = r.t,
                                    !.visits = r.visits,
                                    !.adds = @ \o r.adds], r.deep)
         ELSE PutChildren(Deepest([acc EXCEPT !.t = r.t, !.visits = r.visits,
                                      !.adds = @ \o r.adds,
                                      !.node = Append(@, W(r.v)),
                                      !.voxel_count = IF COLOR_TREE_LEVELS <= level
                                                      THEN @ + r.c ELSE @], r.deep),
                          strict, pool, stop, level, k + 1, last, frames))

put(t, visits, strict, pool, stop, level, idx, frames) ==
  IF frames = 0 THEN Deepest(PutErr(t, visits, STACK_OVERFLOW), level)
  ELSE IF idx >= Len(pool) THEN Deepest(PutErr(t, visits, "Node index out of bounds!"), level)
  ELSE IF level = stop
    THEN Let(full_node_ptr(t, level), LAMBDA f :
           IF ~f.ok THEN Deepest(PutErr(t, visits, f.err), level)
           ELSE Deepest(PutOk(t, visits, f.v,
                              IF COLOR_TREE_LEVELS <= level
                              THEN Pow8[SUPPORTED_LEVELS - level] ELSE None), level))
  ELSE IF visits[idx] # UNSET
    THEN IF level = LEAF_LEVEL
         THEN Let(leaf(t, visits[idx]), LAMBDA l :
                IF l.ok THEN Deepest(PutOk(t, visits, visits[idx], count_leaves(l.v)), level)
                ELSE Deepest(PutErr(t, visits, l.err), level))
         ELSE Let(get(t, visits[idx]), LAMBDA g :
                IF g.ok THEN Deepest(PutOk(t, visits, visits[idx], Shr8(g.v)), level)
                ELSE Deepest(PutErr(t, visits, g.err), level))
  ELSE IF level = LEAF_LEVEL
    THEN IF idx + 1 >= Len(pool)
         THEN Deepest(PutErr(t, visits, "Least significant leaf mask index out of bounds!"),
                      level)
         ELSE Let(SourceLeaf(pool, idx), LAMBDA lf :
              Let(find_or_add_leaf(t, strict, lf), LAMBDA r :
                IF r.ok THEN Deepest(FoundOrAddedFor(
                                       PutOk(r.t, [visits EXCEPT ![idx] = r.v], r.v,
                                             count_leaves(lf)), << <<level, idx>> >>), level)
                ELSE Deepest(FoundOrAddedFor(PutErr(r.t, visits, r.err), << <<level, idx>> >>), level)))
  ELSE LET child_mask == AsU8(pool[idx + 1])
           children == PopTable[child_mask]
           acc0 == [ok |-> TRUE, err |-> "", t |-> t, visits |-> visits,
                    node |-> <<>>, voxel_count |-> 0, deep |-> level, adds |-> <<>>]
       IN Let(PutChildren(acc0, strict, pool, stop, level, idx + 1, idx + children, frames),
              LAMBDA acc :
          Let(IF COLOR_TREE_LEVELS <= level
              THEN HeaderWord(child_mask, acc.voxel_count)
              ELSE <<0, child_mask>>, LAMBDA header :
          Let(find_or_add_interior(acc.t, level, strict, <<header>> \o acc.node), LAMBDA r :
            IF ~acc.ok
            THEN Deepest(FoundOrAddedFor(PutErr(acc.t, acc.visits, acc.err), acc.adds),
                         acc.deep)
            ELSE IF r.ok
              THEN Deepest(FoundOrAddedFor(
                             PutOk(r.t, [acc.visits EXCEPT ![idx] = r.v], r.v,
                                   IF COLOR_TREE_LEVELS <= level THEN acc.voxel_count
                                   ELSE None),
                             acc.adds \o << <<level, idx>> >>), acc.deep)
            ELSE Deepest(FoundOrAddedFor(PutErr(r.t, acc.visits, r.err),
                                         acc.adds \o << <<level, idx>> >>), acc.deep))))

\* Option<u32>: None and Some(word)
NoStop == <<>>
Some(w) == <<w>>

StopError == "The import stop is greater or equal to the leaf level."

\* `level += root_level; if LEAF_LEVEL <= level { return Err(..) }` on the u32
\* stop (Some(word), or NoStop): the sum is taken modulo 2^32 where the build does not
\* check overflow, and panics where it does
stop_level(stop, root_level, overflow_checks) ==
  IF stop = NoStop THEN Ok(None)
  ELSE LET sum_lo == stop[1][2] + root_level
           sum_hi == stop[1][1] + (sum_lo \div HALF)
       IN IF sum_hi >= HALF /\ overflow_checks THEN Err(OVERFLOW)
          ELSE IF sum_hi % HALF > 0 \/ LEAF_LEVEL <= sum_lo % HALF THEN Err(StopError)
          ELSE Ok(sum_lo % HALF)

\* SharedHashDAG::import; stop is NoStop or Some(the u32 level relative to the root)
import(t, strict, bd, stop, overflow_checks) ==
  LET root_level == SUPPORTED_LEVELS - bd.levels
      visits == [i \in 0..(Len(bd.pool) - 1) |-> UNSET]
  IN Let(stop_level(stop, root_level, overflow_checks), LAMBDA abs_stop :
       IF ~abs_stop.ok THEN ErrT(abs_stop.err, t)
       ELSE Let(put(t, visits, strict, bd.pool, abs_stop.v, root_level, 0, STACK_FRAMES), LAMBDA r :
              IF r.ok THEN OkT(r.v, r.t) ELSE ErrT(r.err, r.t)))

import_strict(t, bd, stop, overflow_checks) == import(t, TRUE, bd, stop, overflow_checks)

(* ------------------------------------------------------------------ *)
(* staging.rs: stage and staging_specs                                  *)
(*                                                                      *)
(* A callback is [src |-> <<a, b>>, dst |-> <<c, d>>] for the ranges    *)
(* a..b and c..d.  The cursor st of a pass is the record                *)
(*   pc  "lut" (bit i of the page table mask is next), "lut_end",       *)
(*       "pool" (word i of the pool mask is next), "pool_end", "done"   *)
(*   src_idx, dst_idx, len   the locals of the block                    *)
(*   lut_calls, pool_calls   the callbacks made so far                  *)
(* A word of the pool mask has POOL_WORD_BITS bits (128 in the source,  *)
(* the pages of one block of the pool).                                 *)
(* ------------------------------------------------------------------ *)
POOL_WORD_BITS == BLOCK_PAGES
POOL_MASK_WORDS == TOTAL_PAGES \div POOL_WORD_BITS

Call(src_idx, dst_idx, len) ==
  [src |-> <<src_idx, src_idx + len>>, dst |-> <<dst_idx, dst_idx + len>>]

\* A faulty variant that leaves the source index where it was after a callback:
\* C11 must tell it from the code's.
write_if_end_unadvanced(c) ==
  IF c.len # 0
  THEN [src_idx |-> c.src_idx, dst_idx |-> c.dst_idx + c.len, len |-> 0,
        calls |-> Append(c.calls, Call(c.src_idx, c.dst_idx, c.len))]
  ELSE c

\* write_if_end! on the locals c = [src_idx, dst_idx, len, calls]
write_if_end(c) ==
  IF c.len # 0
  THEN [src_idx |-> c.src_idx + c.len, dst_idx |-> c.dst_idx + c.len, len |-> 0,
        calls |-> Append(c.calls, Call(c.src_idx, c.dst_idx, c.len))]
  ELSE c

\* A faulty variant that does not move the destination over a clear bit: C10
\* must tell it from the code's.
StageBitUnmoved(c, is_set, bit_len) ==
  IF is_set THEN [c EXCEPT !.len = @ + bit_len]
  ELSE write_if_end(c)

\* the body of `for shift in 0..8` for one bit
StageBit(c, is_set, bit_len) ==
  IF is_set THEN [c EXCEPT !.len = @ + bit_len]
  ELSE [write_if_end(c) EXCEPT !.dst_idx = @ + bit_len]

RECURSIVE StageBits(_, _, _, _)
StageBits(c, mask, word, b) ==
  IF b >= POOL_WORD_BITS THEN c
  ELSE StageBits(StageBit(c, (word * POOL_WORD_BITS + b) \in mask, POOL_MASK_BIT_LEN),
                 mask, word, b + 1)

\* the body of the loop over the words of the pool mask
StageWord(c, mask, word) ==
  Let({b \in 0..(POOL_WORD_BITS - 1) : (word * POOL_WORD_BITS + b) \in mask}, LAMBDA bits :
    IF Cardinality(bits) = POOL_WORD_BITS
      THEN [c EXCEPT !.len = @ + POOL_WORD_BITS * POOL_MASK_BIT_LEN]
    ELSE IF bits = {}
      THEN [write_if_end(c) EXCEPT !.dst_idx = @ + POOL_WORD_BITS * POOL_MASK_BIT_LEN]
    ELSE StageBits(c, mask, word, 0))

\* the `if len != 0 { write(..) }` behind a loop
StageEnd(c) ==
  IF c.len # 0 THEN [c EXCEPT !.calls = Append(@, Call(c.src_idx, c.dst_idx, c.len))] ELSE c

StageLocals(st, calls) ==
  [src_idx |-> st.src_idx, dst_idx |-> st.dst_idx, len |-> st.len, calls |-> calls]

StageBegin ==
  [pc |-> "lut", i |-> 0, src_idx |-> 0, dst_idx |-> 0, len |-> 0,
   lut_calls |-> <<>>, pool_calls |-> <<>>]

StageStep(st, lmask, pmask) ==
  CASE st.pc = "lut" ->
         Let(StageBit(StageLocals(st, st.lut_calls), st.i \in lmask, LUT_MASK_BIT_LEN),
             LAMBDA c :
           [st EXCEPT !.src_idx = c.src_idx, !.dst_idx = c.dst_idx, !.len = c.len,
                      !.lut_calls = c.calls, !.i = @ + 1,
                      !.pc = IF st.i + 1 = LUT_MASK_BITS THEN "lut_end" ELSE "lut"])
    [] st.pc = "lut_end" ->
         Let(StageEnd(StageLocals(st, st.lut_calls)), LAMBDA c :
           [st EXCEPT !.lut_calls = c.calls, !.src_idx = 0, !.dst_idx = 0, !.len = 0,
                      !.i = 0, !.pc = "pool"])
    [] st.pc = "pool" ->
         Let(StageWord(StageLocals(st, st.pool_calls), pmask, st.i), LAMBDA c :
           [st EXCEPT !.src_idx = c.src_idx, !.dst_idx = c.dst_idx, !.len = c.len,
                      !.pool_calls = c.calls, !.i = @ + 1,
                      !.pc = IF st.i + 1 = POOL_MASK_WORDS THEN "pool_end" ELSE "pool"])
    [] st.pc = "pool_end" ->
         Let(StageEnd(StageLocals(st, st.pool_calls)), LAMBDA c :
           [st EXCEPT !.pool_calls = c.calls, !.pc = "done"])
    [] OTHER -> st

RECURSIVE RunStage(_, _, _)
RunStage(st, lmask, pmask) ==
  IF st.pc = "done" THEN st ELSE RunStage(StageStep(st, lmask, pmask), lmask, pmask)

\* Staging::stage: the callbacks of one pass
stage(t) == RunStage(StageBegin, t.page_table_mask, t.pool_mask)

\* StagingCache::new
staging_specs(t) ==
  [pool_items |-> Cardinality(t.pool_mask) * POOL_MASK_BIT_LEN,
   pages |-> LUT_MASK_BIT_LEN * Cardinality(t.page_table_mask)]

(* ------------------------------------------------------------------ *)
(* tests.rs: the two passes of the helper `stage`                       *)
(* Arrays here are functions on 0..n-1.                                 *)
(* ------------------------------------------------------------------ *)
\* dst[d0 .. d0 + n) <- src[s0 .. s0 + n)
CopySlice(dst, d0, src, s0, n) ==
  [k \in DOMAIN dst |-> IF d0 <= k /\ k < d0 + n THEN src[s0 + (k - d0)] ELSE dst[k]]

CallFits(c, src_len, dst_len) == c.src[2] <= src_len /\ c.dst[2] <= dst_len

\* first pass: staging[src_range] <- table[dst_range]
RECURSIVE FillStaging(_, _, _, _)
FillStaging(staging, table, calls, k) ==
  IF k > Len(calls) THEN staging
  ELSE FillStaging(CopySlice(staging, calls[k].src[1], table, calls[k].dst[1],
                             calls[k].src[2] - calls[k].src[1]),
                   table, calls, k + 1)

\* second pass: device[dst_range] <- staging[src_range]
RECURSIVE FlushStaging(_, _, _, _)
FlushStaging(device, staging, calls, k) ==
  IF k > Len(calls) THEN device
  ELSE FlushStaging(CopySlice(device, calls[k].dst[1], staging, calls[k].src[1],
                              calls[k].src[2] - calls[k].src[1]),
                    staging, calls, k + 1)

PoolArray(t) == [k \in 0..(PoolLen(t) - 1) |-> t.pool[k + 1]]

\* the helper: Ok with the two device buffers, or a panic of a slice out of range
stage_to_device(t, pool_dst, lut_dst) ==
  Let(staging_specs(t), LAMBDA specs :
  Let(stage(t), LAMBDA calls :
    LET pool_src0 == [k \in 0..(specs.pool_items - 1) |-> ZERO]
        lut_src0 == [k \in 0..(specs.pages - 1) |-> 0]
        fits == /\ \A k \in 1..Len(calls.pool_calls) :
                     CallFits(calls.pool_calls[k], specs.pool_items, PoolLen(t))
                /\ \A k \in 1..Len(calls.lut_calls) :
                     CallFits(calls.lut_calls[k], specs.pages, TOTAL_PAGES)
        pool_src == FillStaging(pool_src0, PoolArray(t), calls.pool_calls, 1)
        lut_src == FillStaging(lut_src0, t.lut, calls.lut_calls, 1)
    IN IF ~fits THEN Err(PANIC)
       ELSE Ok([pool |-> FlushStaging(pool_dst, pool_src, calls.pool_calls, 1),
                lut |-> FlushStaging(lut_dst, lut_src, calls.lut_calls, 1)])))

(* ------------------------------------------------------------------ *)
(* What a root shows: its unit voxels, read through the table with      *)
(* HashDAG::interior and HashDAG::leaf.  The set of voxels is held as   *)
(* the 64-bit mask of every leaf position below the root (bit b of word *)
(* j at leaf position p is the voxel LeafVoxel(p, j, b)); a position    *)
(* without a leaf has the mask [0, 0], one whose node cannot be read    *)
(* has UNREADABLE.                                                      *)
(* ------------------------------------------------------------------ *)
UNREADABLE == <<<<-1, -1>>, <<-1, -1>>>>
NO_LEAF == <<ZERO, ZERO>>

\* the leaf positions below a node of a level: the paths of LEAF_LEVEL
LeafPaths(level) ==
  LET n == Pow2[LEAF_LEVEL - level] - 1
  IN {<<x, y, z>> : x \in 0..n, y \in 0..n, z \in 0..n}

\* the child on the way to leaf position p, `remaining` levels above the leaves:
\* the inverse of descend
ChildOnPath(p, remaining) ==
  LET bit(v) == (v \div Pow2[remaining - 1]) % 2
  IN 4 * bit(p[1]) + 2 * bit(p[2]) + bit(p[3])

\* position of child's pointer in the node: one plus the set bits of the mask below child
ChildPos(mask_word, child) ==
  2 + Cardinality({c \in 0..(child - 1) : TestBit(mask_word, c)})

RECURSIVE LeafWordsAt(_, _, _, _)
LeafWordsAt(t, vptr, level, p) ==
  IF level = LEAF_LEVEL
  THEN LET l == leaf(t, vptr) IN IF l.ok THEN l.v ELSE UNREADABLE
  ELSE LET n == interior(t, vptr)
           c == ChildOnPath(p, LEAF_LEVEL - level)
       IN IF ~n.ok THEN UNREADABLE
          ELSE IF ~TestBit(n.v[1], c) THEN NO_LEAF
          ELSE LeafWordsAt(t, VptrOf(n.v[ChildPos(n.v[1], c)]), level + 1, p)

Voxels(t, vptr) ==
  [p \in LeafPaths(vptr_to_lvl(vptr)) |-> LeafWordsAt(t, vptr, vptr_to_lvl(vptr), p)]

(* ------------------------------------------------------------------ *)
(* The inputs of the operations                                         *)
(* ------------------------------------------------------------------ *)
\* the capacity asked of with_capacity, in words
Capacity == 12 * PAGE_LEN

\* the shapes handed to edit: Shape::new(centroid, extent)
Shapes ==
  << AABB_new(<<2, 2, 2>>, 1),
     AABB_new(<<4, 4, 4>>, 2),
     Sphere_new(<<8, 8, 8>>, 3),
     AABB_new(<<5, 1, 1>>, 1) >>

Operations == {"Link", "Unlink"}

\* the unit voxels a shape collides with, one test per voxel, as leaf masks
ShapeVoxels ==
  [i \in 1..Len(Shapes) |->
     [p \in LeafPaths(0) |->
        [j \in 1..2 |->
           WordFromBits({b \in 0..31 :
              collides(Shapes[i], AABB_from(OctVox(SUPPORTED_LEVELS, LeafVoxel(p, j - 1, b))))})]]]

\* the sources handed to import_strict (BasicDAG::new(levels, pool)): a root with
\* one level-1 child used twice, over a partial and a full leaf; and a two-level
\* source whose root lands on level 1
Sources ==
  << [levels |-> 4,
      pool |-> << W(3), W(3), W(3), W(129), W(6), W(8),
                  <<0, 255>>, <<32768, 0>>, ONES, ONES >>],
     [levels |-> 3,
      pool |-> << W(16), W(2), W(3), ZERO >>] >>

\* the leaves and interior nodes handed to find_or_add_*: Strict nodes
LeafInputs == { <<W(1), ZERO>>, <<ZERO, W(1)>> }
MaskInputs == {1, 129, 127}

\* an interior node of a level whose children are all the full node below
InteriorInput(t, level, mask) ==
  LET n == PopTable[mask]
      count == IF COLOR_TREE_LEVELS <= level THEN n * Pow8[SUPPORTED_LEVELS - level - 1] ELSE 0
  IN <<HeaderWord(mask, count)>> \o [k \in 1..n |-> W(t.full_node_pointers[level + 1])]

(* ------------------------------------------------------------------ *)
(* The state                                                            *)
(* ------------------------------------------------------------------ *)
VARIABLES
  pool, lut, hi, bucket_len, full_node_pointers,  \* HashTable
  pool_mask, page_table_mask,                     \* BasicTracker
  root,        \* the root pointer the caller holds
  dev_pool,    \* the device mirror of the pool
  dev_lut,     \* the device mirror of the page table
  last,        \* the last call: its kind, its arguments and its result
  ops,         \* the number of mutating calls made
  adding,      \* the add_leaf / add_interior in progress (store by store)
  published,   \* the nodes add_leaf / add_interior have returned a pointer for
  staging      \* the stage pass in progress (step by step)

vars == <<pool, lut, hi, bucket_len, full_node_pointers, pool_mask, page_table_mask,
          root, dev_pool, dev_lut, last, ops, adding, published, staging>>

\* the number of mutating calls a behaviour makes
MaxOps == 2

Table ==
  [pool |-> pool, lut |-> lut, hi |-> hi, bucket_len |-> bucket_len,
   full_node_pointers |-> full_node_pointers,
   pool_mask |-> pool_mask, page_table_mask |-> page_table_mask]

\* the table after the step
TableNext ==
  [pool |-> pool', lut |-> lut', hi |-> hi', bucket_len |-> bucket_len',
   full_node_pointers |-> full_node_pointers',
   pool_mask |-> pool_mask', page_table_mask |-> page_table_mask']

SetTable(t) ==
  /\ pool' = t.pool
  /\ lut' = t.lut
  /\ hi' = t.hi
  /\ bucket_len' = t.bucket_len
  /\ full_node_pointers' = t.full_node_pointers
  /\ pool_mask' = t.pool_mask
  /\ page_table_mask' = t.page_table_mask

Call0 ==
  [kind |-> "new", ok |-> TRUE, err |-> "", v |-> None, root |-> None,
   operation |-> "", shape |-> 0, source |-> 0, level |-> 0, node |-> <<>>,
   strict |-> TRUE, stop |-> NoStop, hash |-> 0, args |-> <<>>, stages |-> 0]

Idle == [pc |-> "idle"]

\* a call may follow as long as no call has failed
Live == last.ok /\ adding = Idle /\ staging = Idle

\* SharedHashDAG::with_capacity, with a tracker of the masks given; the device
\* buffers mirror the blank table
Started(capacity, masks, pass) ==
  \E t \in {with_capacity(capacity).t}, b \in {blank(capacity, TRUE).v} :
     /\ pool = t.pool
     /\ lut = t.lut
     /\ hi = t.hi
     /\ bucket_len = t.bucket_len
     /\ full_node_pointers = t.full_node_pointers
     /\ pool_mask = masks.pool_mask
     /\ page_table_mask = masks.page_table_mask
     /\ root = t.full_node_pointers[0]
     /\ dev_pool = PoolArray(b)
     /\ dev_lut = b.lut
     /\ last = Call0
     /\ ops = 0
     /\ adding = Idle
     /\ published = {}
     /\ staging = pass

Init == Started(Capacity, with_capacity(Capacity).t, Idle)

\* what every mutating call does to the rest of the state
Called(r, call) ==
  /\ SetTable(r.t)
  /\ last' = [call EXCEPT !.ok = r.ok, !.err = r.err, !.v = r.v, !.root = root,
                          !.stages = last.stages]
  /\ ops' = ops + 1
  /\ UNCHANGED <<dev_pool, dev_lut, adding, published, staging>>

\* Editor::edit on the root held; the caller holds the new root
Edit(operation, i) ==
  /\ Live /\ ops < MaxOps
  /\ \E r \in {edit(Table, root, operation, Shapes[i])} :
        /\ Called(r, [Call0 EXCEPT !.kind = "edit", !.operation = operation, !.shape = i])
        /\ root' = IF r.ok THEN r.v ELSE root

\* Converter::import_strict of a source; the caller holds the imported root
Import(i) ==
  /\ Live /\ ops < MaxOps
  /\ \E r \in {import_strict(Table, Sources[i], NoStop, TRUE)} :
        /\ Called(r, [Call0 EXCEPT !.kind = "import", !.source = i])
        /\ root' = IF r.ok THEN r.v ELSE root

FindOrAddLeaf(node) ==
  /\ Live /\ ops < MaxOps
  /\ \E r \in {find_or_add_leaf(Table, TRUE, node)} :
        /\ Called(r, [Call0 EXCEPT !.kind = "find_or_add_leaf", !.level = LEAF_LEVEL,
                                   !.node = node])
        /\ UNCHANGED root

FindOrAddInterior(level, mask) ==
  /\ Live /\ ops < MaxOps
  /\ \E node \in {InteriorInput(Table, level, mask)} :
     \E r \in {find_or_add_interior(Table, level, TRUE, node)} :
        /\ Called(r, [Call0 EXCEPT !.kind = "find_or_add_interior", !.level = level,
                                   !.node = node])
        /\ UNCHANGED root

\* the test helper `stage` into the device buffers, then Tracker::clear; the
\* call's value is the number of pool callbacks of the pass
StageClear ==
  /\ Live /\ last.kind # "stage"
  /\ \E r \in {stage_to_device(Table, dev_pool, dev_lut)} :
        /\ last' = [Call0 EXCEPT !.kind = "stage", !.ok = r.ok, !.err = r.err, !.root = root,
                                 !.v = Len(stage(Table).pool_calls),
                                 !.stages = last.stages + 1]
        /\ dev_pool' = IF r.ok THEN r.v.pool ELSE dev_pool
        /\ dev_lut' = IF r.ok THEN r.v.lut ELSE dev_lut
        /\ SetTable(IF r.ok THEN clear(Table) ELSE Table)
        /\ UNCHANGED <<root, ops, adding, published, staging>>

Next ==
  \/ \E operation \in Operations, i \in 1..Len(Shapes) : Edit(operation, i)
  \/ \E i \in 1..Len(Sources) : Import(i)
  \/ \E node \in LeafInputs : FindOrAddLeaf(node)
  \/ \E level \in 0..(LEAF_LEVEL - 1), mask \in MaskInputs : FindOrAddInterior(level, mask)
  \/ StageClear

Spec == Init /\ [][Next]_vars

(* ------------------------------------------------------------------ *)
(* The same calls on a pool of one block, by a caller who goes on after *)
(* a call has returned an error                                         *)
(* ------------------------------------------------------------------ *)
TightCapacity == BLOCK_LEN

InitTight == Started(TightCapacity, with_capacity(TightCapacity).t, Idle)

\* the caller drops the error of the last call
GoOn ==
  /\ ~last.ok /\ adding = Idle /\ staging = Idle
  /\ last' = [Call0 EXCEPT !.kind = "go_on", !.root = root, !.stages = last.stages]
  /\ UNCHANGED <<pool, lut, hi, bucket_len, full_node_pointers, pool_mask,
                 page_table_mask, root, dev_pool, dev_lut, ops, adding, published,
                 staging>>

NextTight == Next \/ GoOn

SpecTight == InitTight /\ [][NextTight]_vars

(* ------------------------------------------------------------------ *)
(* add_leaf and add_interior one store at a time, as a reader of the    *)
(* shared table sees them                                               *)
(* ------------------------------------------------------------------ *)
\* the call: validation, up to the first store
BeginAdd(is_leaf, level, node) ==
  /\ Live /\ ops < MaxOps
  /\ adding' = add_begin(Table, is_leaf, level, TRUE, node,
                         IF is_leaf THEN hash_leaf(node) ELSE hash_interior(node))
  /\ last' = [Call0 EXCEPT !.kind = IF is_leaf THEN "add_leaf" ELSE "add_interior",
                           !.level = level, !.node = node]
  /\ ops' = ops + 1
  /\ UNCHANGED <<pool, lut, hi, bucket_len, full_node_pointers, pool_mask,
                 page_table_mask, root, dev_pool, dev_lut, published, staging>>

\* the next store of the call
AddStore ==
  /\ adding # Idle /\ adding.pc \notin {"done", "fail"}
  /\ adding' = AddStep(adding)
  /\ SetTable(adding'.t)
  /\ UNCHANGED <<root, dev_pool, dev_lut, last, ops, published, staging>>

\* the return of the call
AddReturn ==
  /\ adding # Idle /\ adding.pc \in {"done", "fail"}
  /\ adding' = Idle
  /\ published' = IF adding.pc = "done"
                  THEN published \cup {[vptr |-> adding.vptr, node |-> adding.node,
                                        bucket_len_idx |-> adding.bucket_len_idx]}
                  ELSE published
  /\ last' = [last EXCEPT !.ok = adding.pc = "done", !.err = adding.err,
                          !.v = IF adding.pc = "done" THEN adding.vptr ELSE None]
  /\ UNCHANGED <<pool, lut, hi, bucket_len, full_node_pointers, pool_mask,
                 page_table_mask, root, dev_pool, dev_lut, ops, staging>>

NextPublish ==
  \/ \E node \in LeafInputs : BeginAdd(TRUE, LEAF_LEVEL, node)
  \/ \E level \in 0..(LEAF_LEVEL - 1), mask \in MaskInputs :
       BeginAdd(FALSE, level, InteriorInput(Table, level, mask))
  \/ AddStore
  \/ AddReturn

SpecPublish == Init /\ [][NextPublish]_vars

(* ------------------------------------------------------------------ *)
(* One pass of Staging::stage over any tracker masks, step by step      *)
(* ------------------------------------------------------------------ *)
\* the pages the pool mask is drawn from
StagePages == 9

InitStage ==
  \E pm \in SUBSET (0..(StagePages - 1)), lm \in SUBSET (0..(LUT_MASK_BITS - 1)) :
    /\ pm = {} \/ lm = {}
    /\ Started(Capacity, [pool_mask |-> pm, page_table_mask |-> lm], StageBegin)

StagePass(pc) ==
  /\ staging.pc = pc
  /\ staging' = StageStep(staging, page_table_mask, pool_mask)
  /\ UNCHANGED <<pool, lut, hi, bucket_len, full_node_pointers, pool_mask,
                 page_table_mask, root, dev_pool, dev_lut, last, ops, adding, published>>

StageLutBit == StagePass("lut")
StageLutEnd == StagePass("lut_end")
StagePoolWord == StagePass("pool")
StagePoolEnd == StagePass("pool_end")

NextStage == StageLutBit \/ StageLutEnd \/ StagePoolWord \/ StagePoolEnd

SpecStage == InitStage /\ [][NextStage]_vars

(* ------------------------------------------------------------------ *)
(* Properties                                                           *)
(* ------------------------------------------------------------------ *)
\* the call find_or_add_* just made, made again on a table
FindOrAddAgain(t) ==
  IF last.kind = "find_or_add_leaf"
  THEN find_or_add_leaf(t, TRUE, last.node)
  ELSE find_or_add_interior(t, last.level, TRUE, last.node)

FoundOrAdded == last.kind \in {"find_or_add_leaf", "find_or_add_interior"} /\ last.ok

\* C1: after a successful find_or_add_leaf or find_or_add_interior of a node, the
\* same call made a second time returns the same pointer and leaves every bucket
\* length as it is.
C1_DedupIdempotent ==
  FoundOrAdded =>
    LET again == FindOrAddAgain(Table)
    IN again.ok /\ again.v = last.v /\ again.t.bucket_len = bucket_len

\* The case of C1 where the node was added to a page of its bucket behind the first.
C1_SecondPage ==
  /\ FoundOrAdded
  /\ last.v % PAGE_LEN = 0
  /\ \E level \in 0..LEAF_LEVEL, bucket \in 0..(BUCKETS_PER_LO_LEVEL - 1) :
       /\ bucket < buckets_per_level(level)
       /\ last.v = new_vptr(level, bucket, 0).v + PAGE_LEN

\* a successful edit was the step just taken
Edited == last'.kind = "edit" /\ last'.ok

\* what per-voxel testing gives for one word: Link ORs the colliding voxels in,
\* Unlink ANDs them out
PerVoxelWord(word, operation, shape_word) ==
  WordFromBits({b \in 0..31 :
     IF TestBit(shape_word, b) THEN operation = "Link" ELSE TestBit(word, b)})

PerVoxel(voxels, operation, shape_voxels) ==
  [p \in DOMAIN voxels |->
     IF voxels[p] = UNREADABLE THEN UNREADABLE
     ELSE <<PerVoxelWord(voxels[p][1], operation, shape_voxels[p][1]),
            PerVoxelWord(voxels[p][2], operation, shape_voxels[p][2])>>]

\* C2: a successful edit of a valid root returns a root whose unit voxels are those
\* of the old root united with (Link) or minus (Unlink) the unit voxels the shape
\* collides with, voxel by voxel over the cube of the root (the volume for a root
\* of level 0).
C2_EditSemantics ==
  [][ (Edited /\ validate(Table, root) = Ok(Valid)) =>
        Voxels(TableNext, root') =
          PerVoxel(Voxels(Table, root), last'.operation, ShapeVoxels[last'.shape])
    ]_vars

\* A successful edit that went through all three levels: the new root is a new node.
C2_Rewritten ==
  /\ last.kind = "edit" /\ last.ok
  /\ root # last.root
  /\ vptr_to_lvl(root) = 0

\* C4: after a successful edit, the same edit of the returned root returns that root.
C4_EditIdempotent ==
  (last.kind = "edit" /\ last.ok) =>
    LET again == edit(Table, root, last.operation, Shapes[last.shape])
    IN again.ok /\ again.v = root

\* A successful Unlink that changed the root, after another call.
C4_Changed ==
  /\ last.kind = "edit" /\ last.ok /\ root # last.root
  /\ last.operation = "Unlink"
  /\ ops = 2

Linked == Edited /\ last'.operation = "Link"

\* C5 as stated: Link of a shape followed by Unlink of the same shape shows the
\* voxels of the root before the Link.
C5_EditInverse ==
  [][ Linked =>
        \A unlinked \in {edit(TableNext, root', "Unlink", Shapes[last'.shape])} :
          unlinked.ok => Voxels(unlinked.t, unlinked.v) = Voxels(Table, root) ]_vars

\* C5 amended: Link of a shape followed by Unlink of the same shape shows the voxels
\* of the root before the Link minus the voxels the shape collides with.
C5_LinkThenUnlink ==
  [][ Linked =>
        \A unlinked \in {edit(TableNext, root', "Unlink", Shapes[last'.shape])} :
          unlinked.ok =>
            Voxels(unlinked.t, unlinked.v) =
              PerVoxel(Voxels(Table, root), "Unlink", ShapeVoxels[last'.shape]) ]_vars

\* A Link whose Unlink succeeds and takes away voxels the root had before the Link.
C5_Lost ==
  /\ last.kind = "edit" /\ last.ok /\ last.operation = "Link"
  /\ LET unlinked == edit(Table, root, "Unlink", Shapes[last.shape])
     IN /\ unlinked.ok
        /\ Voxels(unlinked.t, unlinked.v) # Voxels(Table, last.root)

\* C3: after the two passes of a stage into a mirror that matched the table at the
\* last clear (or at creation), the mirror pool equals the pool word for word and
\* the mirror page table equals the page table.
C3_StageRoundTrip ==
  last.kind = "stage" =>
    /\ last.ok
    /\ dev_pool = PoolArray(Table)
    /\ dev_lut = lut

\* A second stage, after a clear and a further call that wrote to the pool.
C3_SecondStage ==
  /\ last.kind = "stage" /\ last.ok
  /\ last.stages = 2 /\ last.v > 0
  /\ dev_pool = PoolArray(Table)

\* the voxels a child of a node of a level stands for, as the parent counts them
ChildCount(t, vptr, level) ==
  IF level + 1 = LEAF_LEVEL
  THEN LET l == leaf(t, vptr) IN IF l.ok THEN count_leaves(l.v) ELSE UNSET
  ELSE LET g == get(t, vptr) IN IF g.ok THEN Shr8(g.v) ELSE UNSET

RECURSIVE SumChildCounts(_, _, _, _)
SumChildCounts(t, node, level, i) ==
  IF i > Len(node) THEN 0
  ELSE ChildCount(t, VptrOf(node[i]), level) + SumChildCounts(t, node, level, i + 1)

\* what C6 asks of every node reachable from a node of a level
RECURSIVE WellFormed(_, _, _)
WellFormed(t, vptr, level) ==
  IF level = LEAF_LEVEL
  THEN LET l == leaf(t, vptr) IN l.ok /\ l.v # <<ZERO, ZERO>>
  ELSE LET n == interior(t, vptr)
       IN /\ n.ok
          /\ Len(n.v) >= 2
          /\ \A i \in 2..Len(n.v) :
               /\ ChildCount(t, VptrOf(n.v[i]), level) # UNSET
               /\ WellFormed(t, VptrOf(n.v[i]), level + 1)
          /\ IF COLOR_TREE_LEVELS <= level
             THEN Shr8(n.v[1]) = SumChildCounts(t, n.v, level, 2)
             ELSE Shr8(n.v[1]) = 0

\* C6: a successful edit of a root that validates as Valid returns a root that
\* validates as Valid: every interior reachable from it has a child, one of the
\* color tree has the sum of its children's voxel counts in header >> 8, one above
\* it has header >> 8 = 0, and no reachable leaf is [0, 0].
C6_EditKeepsValid ==
  [][ (Edited /\ validate(Table, root) = Ok(Valid)) =>
        /\ validate(TableNext, root') = Ok(Valid)
        /\ WellFormed(TableNext, root', vptr_to_lvl(root')) ]_vars

\* A successful edit whose root has a child with a partial voxel count.
C6_Recounted ==
  /\ last.kind = "edit" /\ last.ok /\ root # last.root
  /\ vptr_to_lvl(root) = 0
  /\ validate(Table, root) = Ok(Valid)
  /\ LET n == interior(Table, root)
     IN n.ok /\ \E i \in 2..Len(n.v) :
          LET c == ChildCount(Table, VptrOf(n.v[i]), 0)
          IN 0 < c /\ c < Pow8[SUPPORTED_LEVELS - 1]

\* the imported node at vptr has the shape of the source node at idx: the same
\* child mask at every interior, the same words at every leaf
RECURSIVE SameShape(_, _, _, _, _)
SameShape(t, vptr, level, source_pool, idx) ==
  IF level = LEAF_LEVEL
  THEN leaf(t, vptr) = Ok(<<source_pool[idx + 1], source_pool[idx + 2]>>)
  ELSE LET n == interior(t, vptr)
           children == PopTable[AsU8(source_pool[idx + 1])]
       IN /\ n.ok
          /\ AsU8(n.v[1]) = AsU8(source_pool[idx + 1])
          /\ Len(n.v) = 1 + children
          /\ \A k \in 1..children :
               SameShape(t, VptrOf(n.v[k + 1]), level + 1, source_pool,
                         source_pool[idx + 1 + k][2])

Imported == last'.kind = "import" /\ last'.ok

\* C7: the root import_strict returns for a source validates as Valid, and along
\* every path from it the imported node has the child mask of the source node and
\* the imported leaf has the words of the source leaf.
C7_ImportRoundTrip ==
  [][ Imported =>
        /\ validate(TableNext, root') = Ok(Valid)
        /\ SameShape(TableNext, root', SUPPORTED_LEVELS - Sources[last'.source].levels,
                     Sources[last'.source].pool, 0) ]_vars

\* An import of the four-level source into a table another call has written to.
C7_ImportedAfter ==
  /\ last.kind = "import" /\ last.ok /\ last.source = 1
  /\ ops = 2
  /\ vptr_to_lvl(root) = 0

\* the words of the buckets, by virtual address: every address below the length
\* of its bucket
StoredAddresses(t) ==
  {v \in 0..(TOTAL_VIRT_SPACE - 1) :
     LET level == vptr_to_lvl(v)
         len == new_bucket_len(level)
         first == new_vptr(level, 0, 0).v
         bucket == (v - first) \div len
     IN (v - first) % len < t.bucket_len[new_bucket_len_idx(level, bucket)]}

\* C8: no step overwrites a stored word, lowers hi or a bucket length, or changes
\* an allocated entry of the page table; the voxels of the root held before the
\* step are the same after it.
C8_AppendOnly ==
  [][ /\ hi <= hi'
      /\ \A i \in DOMAIN bucket_len : bucket_len[i] <= bucket_len'[i]
      /\ \A page \in DOMAIN lut : lut[page] # UNSET => lut'[page] = lut[page]
      /\ \A v \in StoredAddresses(Table) :
           get(Table, v).ok => get(TableNext, v) = get(Table, v)
      /\ Voxels(TableNext, root) = Voxels(Table, root) ]_vars

\* the node of an insertion in progress, once its pointer is known
InProgress ==
  IF adding # Idle /\ adding.pc \notin {"vptr", "fail"}
  THEN {[vptr |-> adding.vptr, node |-> adding.node,
         bucket_len_idx |-> adding.bucket_len_idx]}
  ELSE {}

\* the offset of a pointer in its bucket
BucketOffset(vptr) ==
  LET level == vptr_to_lvl(vptr)
  IN (vptr - new_vptr(level, 0, 0).v) % new_bucket_len(level)

\* the words a reader finds at a node's pointer
ReadNode(t, n) ==
  [k \in 1..Len(n.node) |-> get(t, n.vptr + k - 1)]

\* C9: at every store of add_leaf and add_interior, the page of the node is
\* allocated before a word of it is written, the bucket length covers the node only
\* when all its words are written, and a reader who reads the bucket length finds
\* every node below it whole on an allocated page.
C9_PublishOrdering ==
  /\ \A n \in InProgress :
       /\ adding.written > 0 => is_allocated(Table, n.vptr \div PAGE_LEN) = Ok(TRUE)
       /\ BucketOffset(n.vptr) < bucket_len[n.bucket_len_idx] =>
            adding.written = Len(n.node)
  /\ \A n \in published \cup InProgress :
       BucketOffset(n.vptr) < bucket_len[n.bucket_len_idx] =>
         /\ is_allocated(Table, n.vptr \div PAGE_LEN) = Ok(TRUE)
         /\ ReadNode(Table, n) = [k \in 1..Len(n.node) |-> Ok(n.node[k])]

\* A node half written to a page allocated for it, behind a node already returned.
C9_HalfWritten ==
  /\ adding # Idle /\ adding.pc = "write"
  /\ 0 < adding.written /\ adding.written < Len(adding.node)
  /\ adding.vptr % PAGE_LEN = 0
  /\ published # {}

\* the indices a mask stands for: bit_len indices for every set bit
MaskIndices(mask, bit_len) ==
  UNION {(b * bit_len)..(b * bit_len + bit_len - 1) : b \in mask}

\* the destination ranges of the callbacks come in strictly increasing order with a gap
\* between two of them, and each is a run of indices of the mask that stops at
\* both ends at an index the mask does not hold
CallsInOrder(calls, mask, bit_len) ==
  \A k \in 1..Len(calls) :
    LET dst == calls[k].dst
    IN /\ dst[1] < dst[2]
       /\ k > 1 => calls[k - 1].dst[2] < dst[1]
       /\ (dst[1]..(dst[2] - 1)) \subseteq MaskIndices(mask, bit_len)
       /\ (dst[1] - 1) \notin MaskIndices(mask, bit_len)
       /\ dst[2] \notin MaskIndices(mask, bit_len)

CallsCover(calls, mask, bit_len) ==
  UNION {(calls[k].dst[1])..(calls[k].dst[2] - 1) : k \in 1..Len(calls)}
    = MaskIndices(mask, bit_len)

\* C10: within a pass the callbacks of the page table, and those of the pool, have
\* strictly increasing, disjoint, non-adjacent destination ranges, each a maximal
\* run of set bits; at the end of each loop the ranges cover exactly the indices
\* of the set bits.
C10_StageOrderCoverage ==
  staging # Idle =>
    /\ CallsInOrder(staging.lut_calls, page_table_mask, LUT_MASK_BIT_LEN)
    /\ CallsInOrder(staging.pool_calls, pool_mask, POOL_MASK_BIT_LEN)
    /\ staging.pc \in {"pool", "pool_end", "done"} =>
         CallsCover(staging.lut_calls, page_table_mask, LUT_MASK_BIT_LEN)
    /\ staging.pc = "done" =>
         CallsCover(staging.pool_calls, pool_mask, POOL_MASK_BIT_LEN)

\* A finished pass with two pool callbacks, one of them a run that starts in one
\* word of the mask, goes through a word of all ones and ends in a third.
C10_RunAcrossWords ==
  /\ staging # Idle /\ staging.pc = "done"
  /\ Len(staging.pool_calls) = 2
  /\ \E k \in 1..2 :
       /\ staging.pool_calls[k].dst[1] < POOL_WORD_BITS * POOL_MASK_BIT_LEN
       /\ staging.pool_calls[k].dst[2] > 2 * POOL_WORD_BITS * POOL_MASK_BIT_LEN

\* the words the source ranges of the callbacks hold
RECURSIVE CallLens(_, _)
CallLens(calls, k) ==
  IF k > Len(calls) THEN 0
  ELSE (calls[k].src[2] - calls[k].src[1]) + CallLens(calls, k + 1)

\* the two ranges of every callback have one length
PairsEqual(calls) ==
  \A k \in 1..Len(calls) :
    calls[k].src[2] - calls[k].src[1] = calls[k].dst[2] - calls[k].dst[1]

\* the source ranges follow one another from 0 without a gap
SourcesTile(calls) ==
  \A k \in 1..Len(calls) :
    /\ calls[k].src[1] < calls[k].src[2]
    /\ calls[k].src[1] = IF k = 1 THEN 0 ELSE calls[k - 1].src[2]

\* what C11 asks of every state of a pass
StageSizes ==
  staging # Idle =>
    /\ PairsEqual(staging.lut_calls) /\ PairsEqual(staging.pool_calls)
    /\ SourcesTile(staging.lut_calls) /\ SourcesTile(staging.pool_calls)
    /\ staging.pc \in {"pool", "pool_end", "done"} =>
         /\ CallLens(staging.lut_calls, 1) = staging_specs(Table).pages
         /\ staging_specs(Table).pages = Cardinality(page_table_mask) * (TOTAL_PAGES \div 8)
         /\ CallsCover(staging.lut_calls, page_table_mask, LUT_MASK_BIT_LEN)
    /\ staging.pc = "done" =>
         /\ CallLens(staging.pool_calls, 1) = staging_specs(Table).pool_items
         /\ staging_specs(Table).pool_items = Cardinality(pool_mask) * PAGE_LEN
         /\ CallsCover(staging.pool_calls, pool_mask, POOL_MASK_BIT_LEN)
         /\ stage(Table).lut_calls = staging.lut_calls
         /\ stage(Table).pool_calls = staging.pool_calls

\* C11: the source ranges of a pass tile [0, total) from 0, each with a destination
\* range of its length; at the end of a loop their lengths sum to the figure of
\* staging_specs (set bits x PAGE_LEN for the pool, set bits x TOTAL_PAGES / 8 for
\* the page table) and the destinations are exactly the marked words; no step of
\* the pass changes the masks or the table, and a second pass makes the same calls.
C11_StageSizes ==
  /\ []StageSizes
  /\ [][staging # Idle => TableNext = Table]_vars

\* A finished pass of three pool callbacks over five marked pages.
C11_ThreeRuns ==
  /\ staging # Idle /\ staging.pc = "done"
  /\ Len(staging.pool_calls) = 3
  /\ Cardinality(pool_mask) = 5
  /\ CallLens(staging.pool_calls, 1) = 5 * PAGE_LEN

EmptyDAG == "An empty DAG is invalid state."

\* no voxel at any leaf position
NoVoxels(voxels) == \A p \in DOMAIN voxels : voxels[p] = NO_LEAF

NoRoomErrors ==
  { "No space is left to allocate! Consider resizing your pool.",
    "Overflowing bucket on leaf level!",
    "Overflowing bucket on level!",
    "Creating pointer: Bucket offset out of bounds! (Top level)",
    "Creating pointer: Bucket offset out of bounds! (Low level)" }

LeafNodes == { <<ZERO, ZERO>>, <<W(1), ZERO>>, <<ONES, ONES>> }

\* an interior of the level with the child mask given, n children (each the
\* full node below) and a voxel count that differs by delta from the children's
MadeNode(t, level, mask, n, delta) ==
  LET count == IF COLOR_TREE_LEVELS <= level THEN n * Pow8[SUPPORTED_LEVELS - level - 1] ELSE 0
  IN <<HeaderWord(mask, IF count + delta < 0 THEN 0 ELSE count + delta)>>
       \o [k \in 1..n |-> W(t.full_node_pointers[level + 1])]

\* <<mask, children, delta>>: well formed, a mask of one bit over two children,
\* a header alone, nine children, a count one too high, a count one too low, and
\* the full node of the level
InteriorCases ==
  { <<129, 2, 0>>, <<1, 2, 0>>, <<0, 0, 0>>, <<255, 9, 0>>, <<129, 2, 1>>, <<129, 2, -1>>,
    <<255, 8, 0>> }

\* the interiors handed over, the empty slice among them
InteriorNodes(t, level) ==
  { MadeNode(t, level, c[1], c[2], c[3]) : c \in InteriorCases } \cup { <<>> }

FindOrAddLeafNode(strict, node) ==
  /\ Live /\ ops < MaxOps
  /\ \E r \in {find_or_add_leaf(Table, strict, node)} :
        /\ Called(r, [Call0 EXCEPT !.kind = "find_or_add_leaf", !.level = LEAF_LEVEL,
                                   !.node = node, !.strict = strict])
        /\ UNCHANGED root

FindOrAddInteriorNode(level, strict, node) ==
  /\ Live /\ ops < MaxOps
  /\ \E r \in {find_or_add_interior(Table, level, strict, node)} :
        /\ Called(r, [Call0 EXCEPT !.kind = "find_or_add_interior", !.level = level,
                                   !.node = node, !.strict = strict])
        /\ UNCHANGED root

\* add_leaf / add_interior with the hash of the node, as find_or_add_* call them
AddLeaf(strict, node) ==
  /\ Live /\ ops < MaxOps
  /\ \E r \in {add_leaf(Table, strict, node, hash_leaf(node))} :
        /\ Called(r, [Call0 EXCEPT !.kind = "add_leaf", !.level = LEAF_LEVEL,
                                   !.node = node, !.strict = strict])
        /\ UNCHANGED root

AddInterior(level, strict, node) ==
  /\ Live /\ ops < MaxOps
  /\ \E r \in {add_interior(Table, level, strict, node, hash_interior(node))} :
        /\ Called(r, [Call0 EXCEPT !.kind = "add_interior", !.level = level,
                                   !.node = node, !.strict = strict])
        /\ UNCHANGED root

NextNodes ==
  \/ \E strict \in BOOLEAN, node \in LeafNodes : FindOrAddLeafNode(strict, node)
  \/ \E level \in 0..(LEAF_LEVEL - 1), strict \in BOOLEAN :
       \E node \in InteriorNodes(Table, level) : FindOrAddInteriorNode(level, strict, node)
  \/ \E strict \in BOOLEAN, node \in LeafNodes : AddLeaf(strict, node)
  \/ \E level \in 0..(LEAF_LEVEL - 1), strict \in BOOLEAN :
       \E node \in InteriorNodes(Table, level) : AddInterior(level, strict, node)

SpecNodes == Init /\ [][NextNodes]_vars

\* the errors of validation (Error::InvalidNode)
InvalidNodeErrors ==
  { "Invalid node: The leaf mask contains no leaves!",
    "Invalid node: The interior node's child mask is invalid.",
    "Invalid node: The voxel count is too low!",
    "Invalid node: The voxel count is too high!" }

InteriorCalls == {"find_or_add_interior", "add_interior"}
LeafCalls == {"find_or_add_leaf", "add_leaf"}

\* 1 < len <= 9 and popcount(header & 0xff) + 1 == len
ShapeRule(node) ==
  /\ 1 < Len(node) /\ Len(node) <= 9
  /\ PopTable[AsU8(node[1])] + 1 = Len(node)

\* C13: find_or_add_interior and add_interior called with a Strict node return an
\* InvalidNode error and insert nothing unless 1 < len <= 9 and
\* popcount(header & 0xff) + 1 == len; so every interior a Strict call has
\* inserted (returned a pointer for) satisfies the popcount rule.
C13_ShapeRule ==
  [][(last'.kind \in InteriorCalls /\ last'.strict) =>
       /\ ~ShapeRule(last'.node) =>
            (~last'.ok /\ last'.err \in InvalidNodeErrors /\ TableNext = Table)
       /\ last'.ok => ShapeRule(last'.node)]_vars

\* a Strict call has returned a pointer for an interior of two children whose
\* child mask has one bit
C13_OneBitTwoChildren ==
  /\ last.kind \in InteriorCalls /\ last.strict /\ last.ok
  /\ Len(last.node) = 3 /\ AsU8(last.node[1]) = 1
  /\ Table # with_capacity(Capacity).t
  /\ interior(Table, last.v) = Ok(SubSeq(last.node, 1, 2))

\* the voxel count a Strict interior of the level must carry, by the table
VoxelCountDue(t, level, node) ==
  IF COLOR_TREE_LEVELS <= level THEN SumChildCounts(t, node, level, 2) ELSE 0

LeafRule ==
  [][last'.kind \in LeafCalls =>
       /\ (last'.strict /\ last'.node = <<ZERO, ZERO>>) =>
            (~last'.ok /\ last'.err \in InvalidNodeErrors /\ TableNext = Table)
       /\ (last'.strict /\ last'.ok) => count_leaves(last'.node) > 0
       /\ last'.ok => leaf(TableNext, last'.v) = Ok(last'.node)]_vars

\* the nodes of the tests add_empty_interior and add_incomplete_interior
PassedShort == { <<>>, <<ZERO>> }

\* C15: find_or_add_leaf / add_leaf with Strict([0, 0]) return an InvalidNode error
\* and insert nothing; every leaf inserted has popcount > 0 and
\* leaf(find_or_add_leaf(l)) is l; a Pass node skips validation, so add_interior
\* with Pass(&[]) or Pass(&[0]) succeeds.
C15_LeafAndPass ==
  [][/\ last'.kind \in LeafCalls =>
          /\ (last'.strict /\ last'.node = <<ZERO, ZERO>>) =>
               (~last'.ok /\ last'.err \in InvalidNodeErrors /\ TableNext = Table)
          /\ (last'.strict /\ last'.ok) => count_leaves(last'.node) > 0
          /\ last'.ok => leaf(TableNext, last'.v) = Ok(last'.node)
     /\ (last'.kind = "add_interior" /\ ~last'.strict /\ last'.node \in PassedShort)
          => last'.ok]_vars

\* add_interior with Pass(&[]) has returned the error of the tracker
C15_EmptyPassFails ==
  /\ last.kind = "add_interior" /\ ~last.strict /\ last.node = <<>>
  /\ ~last.ok /\ last.err = "Cannot register a range spanning beyond a page."

(* ------------------------------------------------------------------ *)
(* A caller that writes into the pool behind the table's back           *)
(* (SharedHashDAG::pool_copy_from, as the validation tests do) and then *)
(* validates the root                                                   *)
(* ------------------------------------------------------------------ *)
\* the nodes reachable from a node of a level, each with its level
RECURSIVE Reach(_, _, _)
Reach(t, vptr, level) ==
  IF level >= LEAF_LEVEL THEN {<<vptr, level>>}
  ELSE Let(interior(t, vptr), LAMBDA n :
         {<<vptr, level>>} \cup
         (IF n.ok THEN UNION { Reach(t, VptrOf(n.v[i]), level + 1) : i \in 2..Len(n.v) }
          ELSE {}))

\* the words the tests write over a node: [0, 0] over a leaf; over the header of
\* an interior 0, 0xff, 0xff00 and the header with its child mask zeroed
TamperWords(old, level) ==
  IF level = LEAF_LEVEL THEN { <<ZERO, ZERO>> }
  ELSE { <<ZERO>>, <<W(255)>>, <<W(65280)>>, << <<old[1], old[2] - AsU8(old)>> >> }

RECURSIVE pool_copy_from(_, _, _)
pool_copy_from(t, offset, slice) ==
  IF Len(slice) = 0 THEN t
  ELSE pool_copy_from(pool_store(t, offset, Head(slice)), offset + 1, Tail(slice))

\* the write may follow the last of the calls
PoolCopyFrom(vptr, level) ==
  /\ Live /\ ops <= MaxOps
  /\ \E pi \in {pool_idx(Table, vptr)} :
        /\ pi.ok /\ pi.v + 1 < PoolLen(Table)
        /\ \E words \in TamperWords(Table.pool[pi.v + 1], level) :
              /\ Called(OkT(pi.v, pool_copy_from(Table, pi.v, words)),
                        [Call0 EXCEPT !.kind = "pool_copy_from", !.level = level,
                                      !.node = words])
              /\ UNCHANGED root

NextTamper ==
  \/ /\ last.kind # "pool_copy_from"
     /\ \E operation \in Operations, i \in 1..Len(Shapes) : Edit(operation, i)
  \/ /\ last.kind # "pool_copy_from"
     /\ \E i \in 1..Len(Sources) : Import(i)
  \/ \E n \in Reach(Table, root, vptr_to_lvl(root)) : PoolCopyFrom(n[1], n[2])

SpecTamper == Init /\ [][NextTamper]_vars

\* validate(vptr) has returned Ok(Valid), not Ok(Invalid(..)) and not an error
IsValid(t, vptr) == Let(validate(t, vptr), LAMBDA r : r.ok /\ r.v.valid)

\* every node reachable from the root held passes the Strict rules at its level
AllPass == WellFormed(Table, root, vptr_to_lvl(root))

\* C16: validate(root) is Valid exactly when every node reachable from root
\* passes the Strict rules at its level; and once a reachable leaf of a valid root
\* is overwritten with [0, 0], the voxel count of a reachable interior of the color
\* tree is changed, or the child mask of a reachable interior (the root's among
\* them) is zeroed, validate(root) is not Valid.
C16_ValidateIff ==
  /\ [](IsValid(Table, root) <=> AllPass)
  /\ [][(last'.kind = "pool_copy_from" /\ IsValid(Table, root)) =>
          \A old \in {pool[last'.v + 1]}, new \in {last'.node[1]} :
            (\/ last'.level = LEAF_LEVEL
             \/ AsU8(new) = 0
             \/ (COLOR_TREE_LEVELS <= last'.level /\ Shr8(new) # Shr8(old)))
            => ~IsValid(TableNext, root')]_vars

\* the header of an interior of the color tree, under a root that an edit or an
\* import has made, was overwritten with 0xff, and the root is no longer valid
C16_CountTampered ==
  /\ last.kind = "pool_copy_from" /\ COLOR_TREE_LEVELS <= last.level
  /\ last.level < LEAF_LEVEL
  /\ root # full_node_pointers[0]
  /\ last.node = << W(255) >>
  /\ ~IsValid(Table, root) /\ ~AllPass

(* ------------------------------------------------------------------ *)
(* conversion.rs: import and import_strict called with a stop           *)
(* ------------------------------------------------------------------ *)
\* the stops handed over: none, 0 .. 3 and u32::MAX
StopInputs == { NoStop, Some(ZERO), Some(W(1)), Some(W(2)), Some(W(3)), Some(ONES) }

\* Converter::import (strict = FALSE) or import_strict of a source with a stop,
\* in a build with or without overflow checks
ImportStop(i, strict, stop) ==
  /\ Live /\ ops < MaxOps
  /\ \E overflow_checks \in BOOLEAN :
     \E r \in {import(Table, strict, Sources[i], stop, overflow_checks)} :
        /\ Called(r, [Call0 EXCEPT !.kind = "import", !.source = i, !.strict = strict,
                                   !.stop = stop])
        /\ root' = IF r.ok THEN r.v ELSE root

NextImport ==
  \/ \E i \in 1..Len(Sources), strict \in BOOLEAN, stop \in StopInputs :
       ImportStop(i, strict, stop)
  \/ \E operation \in Operations, i \in 1..Len(Shapes) : Edit(operation, i)

SpecImport == Init /\ [][NextImport]_vars

\* (SUPPORTED_LEVELS - levels) + s >= LEAF_LEVEL, for the u32 s of a word
StopTooDeep(i, stop) ==
  stop[1][1] > 0 \/ (SUPPORTED_LEVELS - Sources[i].levels) + stop[1][2] >= LEAF_LEVEL

\* C17: import and import_strict called with stop = Some(s) such that
\* (SUPPORTED_LEVELS - levels) + s >= LEAF_LEVEL return an error and leave the
\* pool, the LUT, hi, the bucket lengths and the tracker masks as they were; with
\* a smaller stop the call does not fail with the error of the stop check.
C17_StopCheck ==
  [][(last'.kind = "import" /\ last'.stop # NoStop) =>
       IF StopTooDeep(last'.source, last'.stop)
       THEN ~last'.ok /\ last'.err = StopError /\ TableNext = Table
       ELSE last'.err # StopError]_vars

\* an import of the source whose root lies on level 1, with the stop u32::MAX,
\* has returned a root
C17_WrappedStop ==
  /\ last.kind = "import" /\ last.stop = Some(ONES) /\ last.source = 2
  /\ last.ok /\ last.v = root /\ Table # with_capacity(Capacity).t

\* the stop check rejects every stop whose sum with the root level is, as a u32,
\* at or beyond the leaf level, and changes nothing
StopCheckOfSum ==
  [][(last'.kind = "import" /\ last'.stop # NoStop) =>
       \A sum_lo \in {(SUPPORTED_LEVELS - Sources[last'.source].levels) + last'.stop[1][2]} :
       \A sum_hi \in {last'.stop[1][1] + (sum_lo \div HALF)} :
         /\ (sum_hi < HALF /\ StopTooDeep(last'.source, last'.stop)) =>
              (~last'.ok /\ last'.err = StopError /\ TableNext = Table)
         /\ ~StopTooDeep(last'.source, last'.stop) => last'.err # StopError]_vars

NoSpace == "No space is left to allocate! Consider resizing your pool."

\* the calls that insert nodes
InsertCalls == {"find_or_add_leaf", "find_or_add_interior", "edit", "import"}

\* C18: when every physical page of the pool is in use (hi * PAGE_LEN is the
\* length of the pool), a call that asks for one more page (hi moves) fails with
\* "No space is left to allocate! Consider resizing your pool."; an edit or import
\* in which the page asked for lies behind the pool returns that error; and the
\* error is returned only after such a request.
C18_OutOfSpace ==
  [][last'.kind \in InsertCalls =>
       /\ (hi * PAGE_LEN = Len(pool) /\ hi' # hi) => (~last'.ok /\ last'.err = NoSpace)
       /\ (hi * PAGE_LEN <= Len(pool) /\ Len(pool) < hi' * PAGE_LEN)
            => (~last'.ok /\ last'.err = NoSpace)
       /\ last'.err = NoSpace => (hi < hi' /\ Len(pool) < hi' * PAGE_LEN)]_vars

\* an insert of one node made when hi * PAGE_LEN was the length of the pool has
\* returned the error
C18_InsertOutOfSpace ==
  /\ last.kind \in {"find_or_add_leaf", "find_or_add_interior"}
  /\ ~last.ok /\ last.err = NoSpace
  /\ (hi - 1) * PAGE_LEN = Len(pool)

\* C19: in every state, after a call that succeeded or one that failed,
\* hi * PAGE_LEN <= the length of the pool, and the entry of every allocated page
\* of the page table points to a page that lies inside the pool.
C19_PoolBound ==
  /\ hi * PAGE_LEN <= Len(pool)
  /\ \A page \in DOMAIN lut : lut[page] # UNSET => lut[page] + PAGE_LEN <= Len(pool)

\* a call has returned the out-of-space error and left an entry of the page table
\* that points behind the pool
C19_EntryBehindPool ==
  /\ ~last.ok /\ last.err = NoSpace
  /\ Len(pool) < hi * PAGE_LEN
  /\ \E page \in DOMAIN lut : lut[page] # UNSET /\ lut[page] >= Len(pool)

\* the bound does hold as long as no call has failed
PoolBoundWhileOk == last.ok => C19_PoolBound

(* ------------------------------------------------------------------ *)
(* lib.rs: add_leaf and add_interior called over and over with the hash *)
(* of one bucket, until the bucket is full                              *)
(* ------------------------------------------------------------------ *)
\* the number of nodes a behaviour adds to the bucket
MaxAdds == 24

\* the hashes handed over: the first bucket of the level
HashInputs == {0}

\* <<mask, children>> of the interiors added: two, six and ten words
FillCases == { <<1, 1>>, <<31, 5>>, <<255, 9>> }

AddLeafTo(node, hash) ==
  /\ Live /\ ops < MaxAdds
  /\ last.kind \in {"new", "add_leaf"}
  /\ \E r \in {add_leaf(Table, FALSE, node, hash)} :
        /\ Called(r, [Call0 EXCEPT !.kind = "add_leaf", !.level = LEAF_LEVEL,
                                   !.node = node, !.strict = FALSE, !.hash = hash])
        /\ UNCHANGED root

AddInteriorTo(level, node, hash) ==
  /\ Live /\ ops < MaxAdds
  /\ last.kind = "new" \/ (last.kind = "add_interior" /\ last.level = level)
  /\ \E r \in {add_interior(Table, level, FALSE, node, hash)} :
        /\ Called(r, [Call0 EXCEPT !.kind = "add_interior", !.level = level,
                                   !.node = node, !.strict = FALSE, !.hash = hash])
        /\ UNCHANGED root

NextBucket ==
  \/ \E hash \in HashInputs : AddLeafTo(<<W(1), ZERO>>, hash)
  \/ \E level \in 0..(LEAF_LEVEL - 1), c \in FillCases, hash \in HashInputs :
       AddInteriorTo(level, MadeNode(Table, level, c[1], c[2], 0), hash)

SpecBucket == Init /\ [][NextBucket]_vars

BucketOverflow == { "Overflowing bucket on leaf level!", "Overflowing bucket on level!" }

\* the length of the bucket before an add
LenBefore(level, hash) == bucket_len[new_bucket_len_idx(level, bucket_from_hash(level, hash))]

\* the words of the page left unused by an interior that does not fit in the rest
\* of the page
WastedTail(is_leaf, len, node_len) ==
  IF ~is_leaf /\ PAGE_LEN - (len % PAGE_LEN) < node_len
  THEN PAGE_LEN - (len % PAGE_LEN) ELSE 0

\* C20: add_leaf and add_interior fail with the BucketOverflow error
\* ("Overflowing bucket ...") whenever the length of the bucket after the insert,
\* the wasted tail of a page included, would be greater than or equal to the
\* bucket capacity of the level, and do not fail with it when the new length stays
\* below the capacity.
C20_BucketOverflow ==
  [][last'.kind \in {"add_leaf", "add_interior"} =>
       \A len \in {LenBefore(last'.level, last'.hash)} :
       \A new_len \in {len + WastedTail(last'.kind = "add_leaf", len, Len(last'.node))
                           + Len(last'.node)} :
         IF new_len >= new_bucket_len(last'.level)
         THEN ~last'.ok /\ last'.err \in BucketOverflow
         ELSE last'.err \notin BucketOverflow]_vars

\* the errors of new_vptr for an offset at or behind the end of the bucket
OffsetOutOfBounds ==
  { "Creating pointer: Bucket offset out of bounds! (Top level)",
    "Creating pointer: Bucket offset out of bounds! (Low level)" }

\* C20 amended: an add whose wasted tail alone brings the bucket to its capacity
\* fails with "Creating pointer: Bucket offset out of bounds!"; any other add
\* whose new length would be greater than or equal to the capacity fails with
\* "Overflowing bucket ..."; and an add whose new length stays below the capacity
\* fails with neither.
C20_OverflowOrOffset ==
  [][last'.kind \in {"add_leaf", "add_interior"} =>
       \A len \in {LenBefore(last'.level, last'.hash)} :
       \A tail \in {WastedTail(last'.kind = "add_leaf", len, Len(last'.node))} :
         IF len + tail >= new_bucket_len(last'.level)
         THEN ~last'.ok /\ last'.err \in OffsetOutOfBounds
         ELSE IF len + tail + Len(last'.node) >= new_bucket_len(last'.level)
         THEN ~last'.ok /\ last'.err \in BucketOverflow
         ELSE last'.err \notin (BucketOverflow \cup OffsetOutOfBounds)]_vars

\* an interior that fitted in the rest of the page has brought the bucket to its
\* capacity, and the add has failed with the overflow error
C20_Overflowed ==
  /\ last.kind = "add_interior" /\ ~last.ok
  /\ last.err = "Overflowing bucket on level!"
  /\ LenBefore(last.level, last.hash) >= new_bucket_len(last.level)

\* the canonical full interior of a level: mask 0xff, eight times the full node
\* below and, in the color tree, the count 8^(SUPPORTED_LEVELS - level)
FullInterior(t, level) ==
  << HeaderWord(255, IF COLOR_TREE_LEVELS <= level THEN Pow8[SUPPORTED_LEVELS - level] ELSE 0) >>
    \o [k \in 1..8 |-> W(t.full_node_pointers[level + 1])]

FullNode(t, level) == IF level = LEAF_LEVEL THEN <<ONES, ONES>> ELSE FullInterior(t, level)

\* what with_capacity has set up
Bootstrapped(t) ==
  /\ \A level \in 0..LEAF_LEVEL :
       /\ full_node_ptr(t, level).ok
       /\ t.full_node_pointers[level] # 0
       /\ vptr_to_lvl(t.full_node_pointers[level]) = level
  /\ leaf(t, t.full_node_pointers[LEAF_LEVEL]) = Ok(<<ONES, ONES>>)
  /\ \A level \in 0..(LEAF_LEVEL - 1) :
       /\ interior(t, t.full_node_pointers[level]) = Ok(FullInterior(t, level))
       /\ COLOR_TREE_LEVELS <= level => Pow8[SUPPORTED_LEVELS - level] < 16777216
  /\ IsValid(t, t.full_node_pointers[0])

\* C21: after with_capacity full_node_ptr(L) is set for every level; the full
\* interior of level L has the mask 0xff, eight children equal to
\* full_node_ptr(L + 1) and, in the color tree, the voxel count
\* 8^(SUPPORTED_LEVELS - L) < 2^24; validate(full_node_ptr(0)) is Valid; and
\* find_or_add of the full node of a level, Strict or Pass, returns
\* full_node_ptr(L) and changes no bucket length.
C21_Bootstrap ==
  /\ [](last.kind = "new" => Bootstrapped(Table))
  /\ [][(/\ last'.kind \in {"find_or_add_leaf", "find_or_add_interior"}
         /\ last'.node = FullNode(Table, last'.level)) =>
          /\ last'.ok /\ last'.v = full_node_pointers[last'.level]
          /\ bucket_len' = bucket_len /\ TableNext = Table]_vars

\* the full node of level 0 was looked up after another node was inserted, and
\* the pointer of the bootstrap came back
C21_FullAgain ==
  /\ last.kind = "find_or_add_interior" /\ last.level = 0 /\ ~last.strict
  /\ last.node = FullInterior(Table, 0)
  /\ last.ok /\ last.v = full_node_pointers[0]
  /\ ops = 2 /\ Table # with_capacity(Capacity).t

(* ------------------------------------------------------------------ *)
(* utils.rs: new_vptr and vptr_to_lvl called with any level, bucket and *)
(* offset                                                               *)
(* ------------------------------------------------------------------ *)
ASSERTION == "panic: assertion failed"

\* the debug_assert!s new_vptr meets: its own, and for a hi level those of
\* new_bucket_len_idx_u32
new_vptr_asserts(level, bucket, offset_bucket) ==
  /\ level < SUPPORTED_LEVELS
  /\ (level < HI_LEVELS /\ offset_bucket < HI_BUCKET_LEN) =>
       /\ bucket < BUCKETS_PER_HI_LEVEL
       /\ new_bucket_len_idx_u32(level, bucket) < TOTAL_BUCKETS

\* one call of new_vptr, in a build with or without debug assertions
NewVptr(level, bucket, offset_bucket) ==
  /\ Live /\ last.kind = "new"
  /\ \E debug_assertions \in BOOLEAN :
     \E r \in {IF debug_assertions /\ ~new_vptr_asserts(level, bucket, offset_bucket)
               THEN Err(ASSERTION)
               ELSE new_vptr(level, bucket, offset_bucket)} :
        last' = [Call0 EXCEPT !.kind = "new_vptr", !.ok = r.ok, !.err = r.err, !.v = r.v,
                              !.level = level, !.args = <<level, bucket, offset_bucket>>,
                              !.root = root, !.stages = last.stages]
  /\ UNCHANGED <<pool, lut, hi, bucket_len, full_node_pointers, pool_mask,
                 page_table_mask, root, dev_pool, dev_lut, ops, adding, published,
                 staging>>

\* every level, one bucket more than a lo level has, one offset more than a lo
\* bucket has
NextVptr ==
  \E level \in 0..(SUPPORTED_LEVELS - 1), bucket \in 0..BUCKETS_PER_LO_LEVEL,
     offset_bucket \in 0..LO_BUCKET_LEN : NewVptr(level, bucket, offset_bucket)

SpecVptr == Init /\ [][NextVptr]_vars

\* C22: for every level L < SUPPORTED_LEVELS, every bucket b < buckets_per_level(L)
\* and every offset o < new_bucket_len(L), new_vptr(L, b, o) succeeds and
\* vptr_to_lvl of the pointer is L.
C22_LevelRoundTrip ==
  (/\ last.kind = "new_vptr"
   /\ last.args[2] < buckets_per_level(last.args[1])
   /\ last.args[3] < new_bucket_len(last.args[1]))
  => (last.ok /\ vptr_to_lvl(last.v) = last.args[1])

\* the last offset of the last bucket of the last level
C22_LastPointer ==
  /\ last.kind = "new_vptr"
  /\ last.args = <<SUPPORTED_LEVELS - 1, BUCKETS_PER_LO_LEVEL - 1, LO_BUCKET_LEN - 1>>
  /\ last.ok /\ last.v = TOTAL_VIRT_SPACE - 1
  /\ vptr_to_lvl(last.v) = SUPPORTED_LEVELS - 1

\* the errors of new_vptr (Error::OutOfBounds)
PointerOutOfBounds ==
  { "Creating pointer: Bucket offset out of bounds! (Top level)",
    "Creating pointer: Bucket offset out of bounds! (Low level)",
    "Creating pointer: Bucket too large!",
    "Creating pointer: Virtual pointer is out of bounds!" }

\* the first pointer of a bucket of a level
BucketStart(level, bucket) ==
  IF level < HI_LEVELS
  THEN (level * BUCKETS_PER_HI_LEVEL + bucket) * HI_BUCKET_LEN
  ELSE HI + ((level - HI_LEVELS) * BUCKETS_PER_LO_LEVEL + bucket) * LO_BUCKET_LEN

\* C23: new_vptr(level, bucket, offset) returns an OutOfBounds error whenever
\* bucket >= buckets_per_level(level), or offset >= the bucket length of the
\* level, or the pointer would be >= TOTAL_VIRT_SPACE, on a hi level as on a lo
\* level; a pointer it returns lies in the bucket of the level asked for.
C23_PointerBounds ==
  last.kind = "new_vptr" =>
    \A level \in {last.args[1]}, bucket \in {last.args[2]}, offset_bucket \in {last.args[3]} :
      /\ (\/ bucket >= buckets_per_level(level)
          \/ offset_bucket >= new_bucket_len(level)
          \/ BucketStart(level, bucket) + offset_bucket >= TOTAL_VIRT_SPACE)
           => (~last.ok /\ last.err \in PointerOutOfBounds)
      /\ last.ok =>
           /\ BucketStart(level, bucket) <= last.v
           /\ last.v < BucketStart(level, bucket) + new_bucket_len(level)
           /\ vptr_to_lvl(last.v) = level

\* new_vptr has returned, for a bucket a hi level does not have, the first
\* pointer of the level below
C23_OtherLevel ==
  /\ last.kind = "new_vptr" /\ last.args = <<HI_LEVELS - 1, BUCKETS_PER_HI_LEVEL, 0>>
  /\ last.ok /\ last.v = HI /\ vptr_to_lvl(last.v) = HI_LEVELS

\* the lo levels do keep the bounds
PointerBoundsLo == (last.kind = "new_vptr" /\ last.args[1] >= HI_LEVELS) => C23_PointerBounds

(* ------------------------------------------------------------------ *)
(* A caller that looks a virtual pointer up (HashTable::pool_idx) after *)
(* the edits and imports                                                *)
(* ------------------------------------------------------------------ *)
\* the pointers looked up: the first two words and the last word of every
\* page, and of the page behind the last
LookupInputs ==
  UNION { {page * PAGE_LEN, page * PAGE_LEN + 1, page * PAGE_LEN + PAGE_LEN - 1} :
            page \in 0..TOTAL_PAGES }

PoolIdx(vptr) ==
  /\ Live /\ last.kind # "pool_idx"
  /\ \E r \in {pool_idx(Table, vptr)} :
        last' = [Call0 EXCEPT !.kind = "pool_idx", !.ok = r.ok, !.err = r.err, !.v = r.v,
                              !.args = <<vptr>>, !.root = root, !.stages = last.stages]
  /\ UNCHANGED <<pool, lut, hi, bucket_len, full_node_pointers, pool_mask,
                 page_table_mask, root, dev_pool, dev_lut, ops, adding, published,
                 staging>>

NextLookup ==
  \/ \E operation \in Operations, i \in 1..Len(Shapes) : Edit(operation, i)
  \/ \E i \in 1..Len(Sources) : Import(i)
  \/ \E vptr \in LookupInputs : PoolIdx(vptr)

SpecLookup == Init /\ [][NextLookup]_vars

\* C24: pool_idx(vptr) returns "Trying to lookup a non-existing page." when
\* vptr >= TOTAL_VIRT_SPACE, "Virtual pointer points to unallocated memory."
\* when the page of vptr has the sentinel LUT entry, and otherwise
\* LUT[vptr / PAGE_LEN] + vptr mod PAGE_LEN.
C24_PoolIdx ==
  last.kind = "pool_idx" =>
    \A vptr \in {last.args[1]} :
      IF vptr >= TOTAL_VIRT_SPACE
      THEN ~last.ok /\ last.err = "Trying to lookup a non-existing page."
      ELSE IF lut[vptr \div PAGE_LEN] = UNSET
      THEN ~last.ok /\ last.err = "Virtual pointer points to unallocated memory."
      ELSE last.ok /\ last.v = lut[vptr \div PAGE_LEN] + (vptr % PAGE_LEN)

\* a pointer into a page that an edit or an import allocated has been looked up,
\* at an offset within the page
C24_LookedUp ==
  /\ last.kind = "pool_idx" /\ last.ok /\ ops > 0
  /\ last.args[1] % PAGE_LEN = PAGE_LEN - 1
  /\ with_capacity(Capacity).t.lut[last.args[1] \div PAGE_LEN] = UNSET
  /\ last.v = lut[last.args[1] \div PAGE_LEN] + PAGE_LEN - 1

(* ------------------------------------------------------------------ *)
(* A caller that makes a blank table of a capacity of its choice        *)
(* (SharedHashDAG::blank) in place of the table held                    *)
(* ------------------------------------------------------------------ *)
Blank(capacity) ==
  /\ Live /\ last.kind = "new"
  /\ \E overflow_checks \in BOOLEAN :
     \E r \in {blank(capacity, overflow_checks)} :
        /\ SetTable(IF r.ok THEN r.v ELSE Table)
        /\ last' = [Call0 EXCEPT !.kind = "blank", !.ok = r.ok, !.err = r.err,
                                 !.v = IF r.ok THEN None ELSE r.v,
                                 !.args = <<capacity>>, !.root = root,
                                 !.stages = last.stages]
  /\ UNCHANGED <<root, dev_pool, dev_lut, ops, adding, published, staging>>

NextBlank == \E capacity \in 0..(USIZE - 1) : Blank(capacity)

SpecBlank == Init /\ [][NextBlank]_vars

\* the next multiple of 128 x PAGE_LEN words
Rounded(capacity) == ((capacity + BLOCK_LEN - 1) \div BLOCK_LEN) * BLOCK_LEN

\* C25: blank(capacity) rounds the capacity up to the next multiple of
\* 128 x PAGE_LEN words; it returns the error "Cannot allocate {rounded} words
\* to a pool!" exactly when the capacity is 0 or the rounded capacity exceeds
\* TOTAL_VIRT_SPACE; otherwise the pool has the rounded length, every LUT entry
\* is the sentinel, hi is 0, every bucket length is 0 and the masks are clear.
C25_Blank ==
  last.kind = "blank" =>
    \A capacity \in {last.args[1]} :
      IF capacity = 0 \/ Rounded(capacity) > TOTAL_VIRT_SPACE
      THEN /\ ~last.ok
           /\ last.err = "Cannot allocate {capacity} words to a pool!"
           /\ last.v = Rounded(capacity)
      ELSE /\ last.ok
           /\ PoolLen(Table) = Rounded(capacity)
           /\ \A page \in 0..(TOTAL_PAGES - 1) : lut[page] = UNSET
           /\ hi = 0
           /\ \A b \in 0..(TOTAL_BUCKETS - 1) : bucket_len[b] = 0
           /\ pool_mask = {} /\ page_table_mask = {}

\* blank of the largest usize has panicked, or reported 0 words
C25_Wrapped ==
  /\ last.kind = "blank" /\ last.args = <<USIZE - 1>> /\ ~last.ok
  /\ \/ last.err = OVERFLOW
     \/ last.err = "Cannot allocate {capacity} words to a pool!" /\ last.v = 0

\* the capacities whose rounding fits a usize do as C25 says
BlankOfSum == (last.kind = "blank" /\ Rounded(last.args[1]) < USIZE) => C25_Blank

\* a table of one block has been made of a capacity of one word
BlankOfOne ==
  last.kind = "blank" /\ last.args = <<1>> /\ last.ok /\ PoolLen(Table) = BLOCK_LEN

(* ------------------------------------------------------------------ *)
(* A caller of the trackers: Tracker::register and Tracker::clear of    *)
(* the BasicTracker of the table, and of a DummyTracker                 *)
(* ------------------------------------------------------------------ *)
\* the pointers and the ranges registered: ranges within the first pages, ranges
\* over a boundary, empty ranges within a page and at a boundary
TrackedVptrs == { 0, TOTAL_VIRT_SPACE - 1 }
RangeStarts == { 0, PAGE_LEN - 1, PAGE_LEN, PAGE_LEN + 1 }
RangeEnds == { 0, PAGE_LEN, PAGE_LEN + 1, 2 * PAGE_LEN, 2 * PAGE_LEN + 1 }

\* DummyTracker: a unit struct
dummy_register(t, vptr, start, end) == Ok(t)

dummy_clear(t) == t

Tracked(r, call) ==
  /\ SetTable(IF r.ok THEN r.v ELSE Table)
  /\ last' = [call EXCEPT !.ok = r.ok, !.err = r.err, !.root = root, !.stages = last.stages]
  /\ ops' = ops + 1
  /\ UNCHANGED <<root, dev_pool, dev_lut, adding, published, staging>>

Register(vptr, start, end) ==
  /\ Live /\ ops < MaxOps
  /\ \E overflow_checks \in BOOLEAN :
     \E r \in {register(Table, vptr, start, end, overflow_checks)} :
        Tracked(r, [Call0 EXCEPT !.kind = "register", !.args = <<vptr, start, end>>])

Clear ==
  /\ Live /\ ops < MaxOps
  /\ Tracked(Ok(clear(Table)), [Call0 EXCEPT !.kind = "clear"])

DummyRegister(vptr, start, end) ==
  /\ Live /\ ops < MaxOps
  /\ \E r \in {dummy_register(Table, vptr, start, end)} :
        Tracked(r, [Call0 EXCEPT !.kind = "dummy_register", !.args = <<vptr, start, end>>])

DummyClear ==
  /\ Live /\ ops < MaxOps
  /\ Tracked(Ok(dummy_clear(Table)), [Call0 EXCEPT !.kind = "dummy_clear"])

NextTracker ==
  \/ \E vptr \in TrackedVptrs, start \in RangeStarts, end \in RangeEnds :
        Register(vptr, start, end)
  \/ Clear
  \/ \E vptr \in TrackedVptrs, start \in RangeStarts, end \in RangeEnds :
        DummyRegister(vptr, start, end)
  \/ DummyClear

SpecTracker == Init /\ [][NextTracker]_vars

\* the words start..end-1 lie in one page; two of them lie in different pages
InsideOnePage(start, end) ==
  \A i \in start..(end - 1) : i \div PAGE_LEN = start \div PAGE_LEN

CrossesPage(start, end) ==
  \E i \in start..(end - 1) : i \div PAGE_LEN # start \div PAGE_LEN

MasksUnchanged == pool_mask' = pool_mask /\ page_table_mask' = page_table_mask

RegisterRule(vptr, start, end) ==
  /\ InsideOnePage(start, end) =>
       /\ last'.ok
       /\ pool_mask' = pool_mask \cup {start \div PAGE_LEN}
       /\ page_table_mask' = page_table_mask \cup {(vptr \div PAGE_LEN) \div (TOTAL_PAGES \div 8)}
  /\ CrossesPage(start, end) => (~last'.ok /\ MasksUnchanged)

ClearAndDummyRule ==
  /\ last'.kind = "clear" => (pool_mask' = {} /\ page_table_mask' = {})
  /\ last'.kind \in {"dummy_register", "dummy_clear"} => (last'.ok /\ MasksUnchanged)

\* C26: register(vptr, range) with a range inside one page sets exactly the
\* pool-mask bit of page range.start / PAGE_LEN and the LUT-mask bit
\* (vptr / PAGE_LEN) / (TOTAL_PAGES / 8) and leaves every other bit unchanged;
\* with a range that crosses a page boundary it returns an error and changes no
\* bit; clear sets every bit of both masks to 0; the dummy tracker accepts every
\* register call and holds no state.
C26_Tracker ==
  [][/\ last'.kind = "register" =>
          RegisterRule(last'.args[1], last'.args[2], last'.args[3])
     /\ ClearAndDummyRule]_vars

\* register of an empty range at the start of a page has returned the error of a
\* range that spans beyond a page
C26_EmptyAtBoundary ==
  /\ last.kind = "register" /\ last.args = <<0, PAGE_LEN, PAGE_LEN>>
  /\ ~last.ok /\ last.err = "Cannot register a range spanning beyond a page."

\* the ranges of one word or more do as C26 says, and so do clear and the dummy
RegisterNonEmpty ==
  [][/\ (last'.kind = "register" /\ last'.args[2] < last'.args[3]) =>
          RegisterRule(last'.args[1], last'.args[2], last'.args[3])
     /\ ClearAndDummyRule]_vars

\* a second register has set a bit of each mask next to the bits set before, and
\* a clear has emptied masks that held bits
RegisteredTwice ==
  /\ last.kind = "register" /\ last.ok /\ ops = 2
  /\ last.args = <<TOTAL_VIRT_SPACE - 1, PAGE_LEN + 1, 2 * PAGE_LEN>>
  /\ Cardinality(page_table_mask) > 1 /\ Cardinality(pool_mask) > 1

(* ------------------------------------------------------------------ *)
(* Imports of sources whose child indices point back to an ancestor     *)
(* ------------------------------------------------------------------ *)
\* 1: the cyclic fixture of the test import_cyclical_graph: the only child of
\*    the node at 7 is the root at 0, which is read as a leaf there
\* 2: a root that is its own only child
\* 3: the same pool with a root level below the leaf level
\* 4: the same pool with a root at the leaf level
Fixtures ==
  << [levels |-> 4,
      pool |-> << W(105), W(5), W(5), W(5), W(7), W(1), W(9), W(1), ZERO, ONES, ONES >>],
     [levels |-> 4, pool |-> << W(1), ZERO >>],
     [levels |-> 1, pool |-> << W(1), ZERO >>],
     [levels |-> 2, pool |-> << W(1), ZERO >>] >>

\* the deepest level that the puts of an import are called at
descent(t, strict, bd) ==
  put(t, [i \in 0..(Len(bd.pool) - 1) |-> UNSET], strict, bd.pool, None,
      SUPPORTED_LEVELS - bd.levels, 0, STACK_FRAMES).deep

ImportFixture(i, strict) ==
  /\ Live /\ ops < MaxOps
  /\ \E r \in {import(Table, strict, Fixtures[i], NoStop, TRUE)},
        deep \in {descent(Table, strict, Fixtures[i])} :
        /\ Called(r, [Call0 EXCEPT !.kind = "import_fixture", !.source = i,
                                   !.strict = strict,
                                   !.args = <<SUPPORTED_LEVELS - Fixtures[i].levels, deep>>])
        /\ root' = IF r.ok THEN r.v ELSE root

NextCyclic ==
  \/ \E i \in 1..Len(Fixtures), strict \in BOOLEAN : ImportFixture(i, strict)
  \/ \E operation \in Operations, i \in 1..Len(Shapes) : Edit(operation, i)
  \/ \E i \in 1..Len(Sources) : Import(i)

SpecCyclic == Init /\ [][NextCyclic]_vars

\* the puts of the import have gone down at most LEAF_LEVEL - root_level levels
\* and the import has ended with a pointer or an error
DescentBounded ==
  /\ last.args[2] - last.args[1] <= LEAF_LEVEL - last.args[1]
  /\ last.ok \/ last.err # STACK_OVERFLOW

\* C27: for every source pool the recursion of put descends at most
\* LEAF_LEVEL - root_level levels, so import always terminates with a vptr or an
\* error; for the cyclic fixture of the test import_strict returns a root that
\* validates Valid.
C27_CyclicImport ==
  last.kind = "import_fixture" =>
    /\ DescentBounded
    /\ (last.source = 1 /\ last.strict) => (last.ok /\ IsValid(Table, last.v))

\* the import of a root that is its own child, at a root level below the leaf
\* level, has used up the stack
C27_Overflowed ==
  /\ last.kind = "import_fixture" /\ last.source = 3
  /\ ~last.ok /\ last.err = STACK_OVERFLOW
  /\ last.args[2] = last.args[1] + STACK_FRAMES

\* the sources of LEAF_LEVELS levels or more do as C27 says
CyclicOfLevels ==
  (last.kind = "import_fixture" /\ Fixtures[last.source].levels >= LEAF_LEVELS)
    => C27_CyclicImport

\* the cyclic fixture has been imported after an edit, down to the leaf level
CyclicImported ==
  /\ last.kind = "import_fixture" /\ last.source = 1 /\ last.strict /\ ops = 2
  /\ last.ok /\ IsValid(Table, last.v) /\ last.args = <<0, LEAF_LEVEL>>
  /\ Table # with_capacity(Capacity).t

(* ------------------------------------------------------------------ *)
(* A caller that asks OctVox::is_child of a node and of a node reached  *)
(* by descended from a node of the same depth                           *)
(* ------------------------------------------------------------------ *)
MaxDescents == 2

\* nodes of the grid of a level: the corners, and the two nodes of the tests
\* ([2, 1, 0] and [0, 1, 2] there) where the grid has them
PathInputs(level) ==
  { p \in { <<x, y, z>> : x \in {0, Pow2[level] - 1}, y \in {0, Pow2[level] - 1},
                          z \in {0, Pow2[level] - 1} } \cup { <<3, 1, 0>>, <<0, 1, 3>> } :
      \A r \in 1..3 : p[r] < Pow2[level] }

RECURSIVE ChildSeqs(_)
ChildSeqs(k) ==
  IF k = 0 THEN { <<>> }
  ELSE ChildSeqs(k - 1) \cup
       { Append(cs, c) : cs \in { s \in ChildSeqs(k - 1) : Len(s) = k - 1 }, c \in 0..7 }

\* p.descended(c1)...descended(ck)
RECURSIVE Descended(_, _)
Descended(p, children) ==
  IF Len(children) = 0 THEN p
  ELSE Descended(descended(p, Head(children)), Tail(children))

\* parent.is_child(&from.descended(c1)...descended(ck)), k <= the depth
IsChild(level, path, from, children) ==
  /\ Len(children) <= SUPPORTED_LEVELS - level
  /\ \E r \in {is_child(OctVox(level, path), Descended(OctVox(level, from), children))} :
        last' = [Call0 EXCEPT !.kind = "is_child", !.level = level,
                              !.args = <<path, from, children, r>>,
                              !.root = root, !.stages = last.stages]
  /\ UNCHANGED <<pool, lut, hi, bucket_len, full_node_pointers, pool_mask,
                 page_table_mask, root, dev_pool, dev_lut, ops, adding, published,
                 staging>>

\* one question a behaviour
NextOctVox ==
  /\ Live /\ last.kind = "new"
  /\ \E level \in 0..LEAF_LEVEL :
       \E path \in PathInputs(level), from \in PathInputs(level),
          children \in ChildSeqs(MaxDescents) :
         IsChild(level, path, from, children)

SpecOctVox == Init /\ [][NextOctVox]_vars

\* C28: p.is_child(p.descended(c1)...descended(ck)) is true for every OctVox p
\* and every non-empty sequence of child indices (k <= p.depth); p.is_child(p)
\* is false; p.is_child(q) is false for every q that is a different node of the
\* same depth or a descendant of such a node.
C28_Ancestry ==
  last.kind = "is_child" =>
    \A path \in {last.args[1]}, from \in {last.args[2]}, children \in {last.args[3]} :
      last.args[4] = (path = from /\ Len(children) > 0)

\* is_child has been true of a node two levels down, of a node not at the origin
C28_Grandchild ==
  /\ last.kind = "is_child" /\ last.level = LEAF_LEVEL
  /\ last.args = <<<<3, 1, 0>>, <<3, 1, 0>>, <<5, 1>>, TRUE>>

\* and false of the node two levels down from the sibling
C28_Branch ==
  /\ last.kind = "is_child" /\ last.level = LEAF_LEVEL
  /\ last.args = <<<<3, 1, 0>>, <<0, 1, 3>>, <<5, 1>>, FALSE>>

(* ------------------------------------------------------------------ *)
(* A caller that searches a window of a bucket (HashTable::find_leaf    *)
(* and find_interior) after nodes were added                            *)
(* ------------------------------------------------------------------ *)
\* the first pointer of a bucket
BucketBase(level, bucket) == new_vptr(level, bucket, 0).v

\* the length of the node whose first word is at a pointer
NodeLenAt(t, level, vptr) ==
  IF level = LEAF_LEVEL THEN 2
  ELSE Let(get(t, vptr), LAMBDA g : IF g.ok THEN count_ones(<<0, AsU8(g.v)>>) + 1 ELSE 1)

\* the n words at a pointer, each read through the page table
WordsAt(t, vptr, n) == [k \in 1..n |-> get(t, vptr + k - 1).v]

\* the offsets of a bucket at which a node was appended: from node to node, and
\* word by word over the zeroes left at the end of a page
RECURSIVE Starts(_, _, _, _)
Starts(t, level, bucket, offset) ==
  IF offset >= bucket_len_of(t, level, bucket) THEN {}
  ELSE {offset} \cup
       Starts(t, level, bucket,
              offset + NodeLenAt(t, level, BucketBase(level, bucket) + offset))

\* the offsets of the nodes equal to x that lie below len
Hits(t, level, bucket, len, x) ==
  { o \in Starts(t, level, bucket, 0) :
      /\ o + Len(x) <= len
      /\ NodeLenAt(t, level, BucketBase(level, bucket) + o) = Len(x)
      /\ WordsAt(t, BucketBase(level, bucket) + o, Len(x)) = x }

\* the windows searched: the lengths the bucket has had
FindLens(t, level, bucket) ==
  {0} \cup { o + NodeLenAt(t, level, BucketBase(level, bucket) + o) :
               o \in Starts(t, level, bucket, 0) }

\* the nodes searched: the nodes of the bucket and one that no bucket holds
FindNodes(t, level, bucket) ==
  { WordsAt(t, BucketBase(level, bucket) + o,
            NodeLenAt(t, level, BucketBase(level, bucket) + o)) :
      o \in { s \in Starts(t, level, bucket, 0) :
                get(t, BucketBase(level, bucket) + s).v # ZERO } }
  \cup { <<W(2), ZERO>> }

Found(r, call) ==
  /\ last' = [call EXCEPT !.ok = r.ok, !.err = r.err, !.v = r.v, !.root = root,
                          !.stages = last.stages]
  /\ UNCHANGED <<pool, lut, hi, bucket_len, full_node_pointers, pool_mask,
                 page_table_mask, root, dev_pool, dev_lut, ops, adding, published,
                 staging>>

FindLeaf(bucket, len, node) ==
  /\ \E r \in {find_leaf(Table, bucket, len, node)} :
        Found(r, [Call0 EXCEPT !.kind = "find_leaf", !.level = LEAF_LEVEL, !.node = node,
                               !.args = <<bucket, len>>])

FindInterior(level, bucket, len, node) ==
  /\ \E r \in {find_interior(Table, level, bucket, len, node)} :
        Found(r, [Call0 EXCEPT !.kind = "find_interior", !.level = level, !.node = node,
                               !.args = <<bucket, len>>])

Finds == {"find_leaf", "find_interior"}

\* a search ends the behaviour
Searching == Live /\ last.kind \notin Finds

NextFind ==
  \/ /\ Searching
     /\ \E node \in LeafInputs : FindOrAddLeaf(node)
  \/ /\ Searching
     /\ \E level \in 0..(LEAF_LEVEL - 1), mask \in MaskInputs : FindOrAddInterior(level, mask)
  \/ /\ Searching
     /\ \E i \in 1..Len(Sources) : Import(i)
  \/ /\ Searching
     /\ \E bucket \in 0..(buckets_per_level(LEAF_LEVEL) - 1) :
        \E len \in FindLens(Table, LEAF_LEVEL, bucket),
           node \in FindNodes(Table, LEAF_LEVEL, bucket) :
          FindLeaf(bucket, len, node)
  \/ /\ Searching
     /\ \E level \in 0..(LEAF_LEVEL - 1) :
        \E bucket \in 0..(buckets_per_level(level) - 1) :
        \E len \in FindLens(Table, level, bucket),
           node \in FindNodes(Table, level, bucket) :
          FindInterior(level, bucket, len, node)

SpecFind == Init /\ [][NextFind]_vars

\* C29: find_leaf(bucket, len, x) and find_interior(level, bucket, len, x) return
\* Some(v) if and only if a node equal to x was appended to the bucket and lies
\* below len, v being the pointer of the first such node, whichever page of the
\* bucket holds the node and whatever the order in which the pages of the bucket
\* were allocated relative to the pages of other buckets.
C29_FindWindow ==
  last.kind \in Finds =>
    \A hits \in {Hits(Table, last.level, last.args[1], last.args[2], last.node)} :
      IF hits = {} THEN ~(last.ok /\ last.v # None)
      ELSE /\ last.ok
           /\ last.v \in { BucketBase(last.level, last.args[1]) + o : o \in hits }
           /\ \A o \in hits : last.v <= BucketBase(last.level, last.args[1]) + o

\* the pages of the bucket up to the one at offset o lie one behind the other in
\* the pool
PagesInOrder(t, level, bucket, o) ==
  \A page \in 0..(o \div PAGE_LEN) :
    pool_idx(t, BucketBase(level, bucket) + page * PAGE_LEN).v
      = pool_idx(t, BucketBase(level, bucket)).v + page * PAGE_LEN

\* a node that lies in the second page of its bucket, a page allocated after a
\* page of another bucket, has not been found in a window that holds it
C29_MissedInSecondPage ==
  /\ last.kind = "find_interior" /\ last.ok /\ last.v = None
  /\ \E o \in Hits(Table, last.level, last.args[1], last.args[2], last.node) :
       /\ o = PAGE_LEN
       /\ ~PagesInOrder(Table, last.level, last.args[1], o)

\* in the buckets whose pages lie one behind the other the searches do as C29 says
FindInOrder ==
  (/\ last.kind \in Finds
   /\ PagesInOrder(Table, last.level, last.args[1],
                   Max(bucket_len_of(Table, last.level, last.args[1]) - 1, 0)))
    => C29_FindWindow

\* a node has been found behind another in its bucket, and not in a window that
\* ends before it
FoundBehind ==
  /\ last.kind \in Finds /\ last.ok /\ last.v # None
  /\ last.v > BucketBase(last.level, last.args[1])

(* ------------------------------------------------------------------ *)
(* The place of the nodes in the pages of their bucket: add_leaf and    *)
(* add_interior called over and over with the hash of one bucket, with  *)
(* nodes of as many words as their masks have bits, so that the nodes   *)
(* of a bucket can be read back one after the other                     *)
(* ------------------------------------------------------------------ *)
\* <<mask, children>> of the interiors added: two, six and nine words
PlaceCases == { <<1, 1>>, <<31, 5>>, <<255, 8>> }

NextPlace ==
  \/ \E hash \in HashInputs : AddLeafTo(<<W(1), ZERO>>, hash)
  \/ \E level \in 0..(LEAF_LEVEL - 1), c \in PlaceCases, hash \in HashInputs :
       AddInteriorTo(level, MadeNode(Table, level, c[1], c[2], 0), hash)

SpecPlace == Init /\ [][NextPlace]_vars

\* every node of the bucket lies within one page
WithinPage(t, level, bucket) ==
  \A o \in Starts(t, level, bucket, 0) :
    o \div PAGE_LEN
      = (o + NodeLenAt(t, level, BucketBase(level, bucket) + o) - 1) \div PAGE_LEN

AllWithinPage ==
  \A level \in 0..LEAF_LEVEL :
    \A bucket \in 0..(buckets_per_level(level) - 1) : WithinPage(Table, level, bucket)

\* the add has written the words of the node: it has returned a pointer, or the
\* error of the length that the bucket has after the store
Stored == last'.ok \/ last'.err \in BucketOverflow

\* the node of the add lies within one page, and one that did not fit in the rest
\* of its page lies at the first word of the next page, a page allocated by the
\* add, with the bucket length at the page boundary plus the length of the node
PlacedInPage(level, bucket, len, node) ==
  \A rounded \in {len + WastedTail(level = LEAF_LEVEL, len, Len(node))} :
    /\ bucket_len'[new_bucket_len_idx(level, bucket)] = rounded + Len(node)
    /\ rounded \div PAGE_LEN = (rounded + Len(node) - 1) \div PAGE_LEN
    /\ WordsAt(TableNext, BucketBase(level, bucket) + rounded, Len(node)) = node
    /\ last'.ok => last'.v = BucketBase(level, bucket) + rounded
    /\ rounded > len =>
         /\ rounded % PAGE_LEN = 0
         /\ lut[(BucketBase(level, bucket) + rounded) \div PAGE_LEN] = UNSET
         /\ lut'[(BucketBase(level, bucket) + rounded) \div PAGE_LEN] # UNSET

\* C30: in every reachable state every node stored by add_leaf or add_interior
\* lies within one virtual page; when an interior of length n does not fit in the
\* space left in the current page, add_interior advances the bucket length to the
\* page boundary, allocates the next page and stores the node at its first word,
\* so the new bucket length is (old length rounded up to the page boundary) + n.
C30_NoStraddle ==
  /\ []AllWithinPage
  /\ [][(last'.kind \in {"add_leaf", "add_interior"} /\ Stored) =>
          PlacedInPage(last'.level, bucket_from_hash(last'.level, last'.hash),
                       LenBefore(last'.level, last'.hash), last'.node)]_vars

\* an interior of nine words has been stored at the first word of the second page
\* of its bucket, behind words of the first page that were left unused
C30_NextPage ==
  /\ last.kind = "add_interior" /\ last.ok /\ Len(last.node) = 9
  /\ last.v = BucketBase(last.level, bucket_from_hash(last.level, last.hash)) + PAGE_LEN
  /\ bucket_len[new_bucket_len_idx(last.level, bucket_from_hash(last.level, last.hash))]
       = PAGE_LEN + 9
  /\ get(Table, last.v - 1).v = ZERO
  /\ interior(Table, last.v).v = last.node

(* ------------------------------------------------------------------ *)
(* C31: the page table                                                  *)
(* ------------------------------------------------------------------ *)
\* the pages of the table that are allocated
AllocatedPages(t) == {p \in 0..(TOTAL_PAGES - 1) : t.lut[p] # UNSET}

\* hi counts the allocated pages; their entries are distinct page starts below hi
PageTable(t) ==
  /\ t.hi = Cardinality(AllocatedPages(t))
  /\ \A p \in AllocatedPages(t) :
       /\ t.lut[p] % PAGE_LEN = 0
       /\ t.lut[p] < t.hi * PAGE_LEN
  /\ \A p, q \in AllocatedPages(t) : p # q => t.lut[p] # t.lut[q]

\* the virtual pointers into the allocated pages
AllocatedVptrs(t) == {vptr \in 0..(TOTAL_VIRT_SPACE - 1) : vptr \div PAGE_LEN \in AllocatedPages(t)}

\* C31: in every reachable state hi is the number of allocated pages and their
\* entries are pairwise distinct multiples of PAGE_LEN below hi * PAGE_LEN;
\* allocate on an unallocated page changes LUT[page] (to the old hi * PAGE_LEN)
\* and hi (to hi + 1) and nothing else; pool_idx of a pointer into an allocated
\* page is never the out-of-bound error, and no two pointers resolve to the same
\* pool index.
C31_PageTable ==
  /\ PageTable(Table)
  /\ \A page \in (0..(TOTAL_PAGES - 1)) \ AllocatedPages(Table) :
       allocate(Table, page).t = [Table EXCEPT !.lut[page] = hi * PAGE_LEN, !.hi = hi + 1]
  /\ \A vptr \in AllocatedVptrs(Table) : pool_idx(Table, vptr).ok
  /\ Cardinality({pool_idx(Table, vptr).v : vptr \in AllocatedVptrs(Table)})
       = Cardinality(AllocatedVptrs(Table))

\* a call that ran out of space is made again: the page its first run allocated
\* is allocated a second time, and hi counts it twice
C31_AllocatedTwice ==
  /\ last.kind \in {"edit", "import", "find_or_add_leaf", "find_or_add_interior"}
  /\ ~last.ok
  /\ hi > Cardinality(AllocatedPages(Table))

\* the frame of allocate holds whatever the calls before
AllocateFrame ==
  \A page \in (0..(TOTAL_PAGES - 1)) \ AllocatedPages(Table) :
       allocate(Table, page).t = [Table EXCEPT !.lut[page] = hi * PAGE_LEN, !.hi = hi + 1]

(* ------------------------------------------------------------------ *)
(* C32: an edit that changes no voxel                                   *)
(* ------------------------------------------------------------------ *)
\* the operation with the shape changes no unit voxel of the root held
ChangesNoVoxel(operation, i) ==
  PerVoxel(Voxels(Table, root), operation, ShapeVoxels[i]) = Voxels(Table, root)

\* C32: an edit whose operation and shape change no voxel of the root held (a
\* root made by bootstrap, import or edit) returns that root and leaves the pool,
\* hi, the page table, every bucket length and the tracker's masks as they were.
C32_NoOpEdit ==
  [][ (last'.kind = "edit" /\ ChangesNoVoxel(last'.operation, last'.shape)) =>
        /\ last'.ok
        /\ last'.v = root
        /\ root' = root
        /\ TableNext = Table ]_vars

\* An Unlink that changes nothing, of a root an earlier call has made, where the
\* shape collides with the cube of the root.
C32_NothingToUnlink ==
  /\ last.kind = "edit" /\ last.ok /\ last.operation = "Unlink"
  /\ ops = 2
  /\ root = last.root
  /\ root # full_node_pointers[vptr_to_lvl(root)]
  /\ collides(Shapes[last.shape], AABB_from(OctVox(vptr_to_lvl(root), <<0, 0, 0>>)))

\* A Link that changes nothing, of a root an edit or an import has made.
C32_NothingToLink ==
  /\ last.kind = "edit" /\ last.ok /\ last.operation = "Link"
  /\ ops = 2
  /\ root = last.root
  /\ root # full_node_pointers[vptr_to_lvl(root)]
  /\ collides(Shapes[last.shape], AABB_from(OctVox(vptr_to_lvl(root), <<0, 0, 0>>)))

(* ------------------------------------------------------------------ *)
(* C33: edit_leaf called on its own (it is public), as the tests do     *)
(* ------------------------------------------------------------------ *)
\* AABB::from(OctVox) as the shape of an edit
AABB_of(ov) == [kind |-> "AABB", min |-> AABB_from(ov).min, max |-> AABB_from(ov).max]

\* the leaves of the tests: one voxel at +(0, 1, 2), and all but the one at +(1, 3, 2)
LeafFixtures == { << <<0, 1024>>, ZERO >>, << <<49151, 65535>>, ONES >> }

\* the paths of the leaves edited
LeafPathInputs == { <<3, 2, 1>>, <<1, 1, 2>> }

\* the shapes of the tests: the two unit voxels, the boxes at the corner of the
\* leaf (3, 2, 1) with extent 1..3, and a sphere
LeafShapes ==
  << AABB_of(OctVox(SUPPORTED_LEVELS, <<12, 9, 6>>)),
     AABB_of(OctVox(SUPPORTED_LEVELS, <<5, 7, 10>>)),
     AABB_new(<<12, 8, 4>>, 1),
     AABB_new(<<12, 8, 4>>, 2),
     AABB_new(<<12, 8, 4>>, 3),
     Sphere_new(<<6, 6, 10>>, 2) >>

\* the pointers of the leaves stored in the table
StoredLeaves(t) ==
  UNION { { new_vptr(LEAF_LEVEL, b, o).v :
              o \in {x \in 0..(new_bucket_len(LEAF_LEVEL) - 1) :
                       x % 2 = 0 /\ x < bucket_len_of(t, LEAF_LEVEL, b)} } :
          b \in 0..(buckets_per_level(LEAF_LEVEL) - 1) }

\* edit_leaf((operation, shape), vptr, path); the arguments and the voxel count
\* returned are kept with the call
EditLeaf(operation, i, vptr, path) ==
  /\ Live /\ ops < MaxOps
  /\ \E r \in {edit_leaf(Table, operation, LeafShapes[i], vptr, path)} :
        /\ Called(r, [Call0 EXCEPT !.kind = "edit_leaf", !.operation = operation,
                                   !.shape = i, !.level = LEAF_LEVEL,
                                   !.args = <<vptr, path, r.c>>])
        /\ UNCHANGED root

NextLeaf ==
  \/ \E node \in LeafFixtures : AddLeaf(FALSE, node)
  \/ \E operation \in Operations, i \in 1..Len(LeafShapes), path \in LeafPathInputs :
       \E vptr \in StoredLeaves(Table) \cup {None} : EditLeaf(operation, i, vptr, path)

SpecLeaf == Init /\ [][NextLeaf]_vars

\* the leaf edit_leaf starts from
InitLeaf(t, vptr) == IF vptr = None THEN <<ZERO, ZERO>> ELSE leaf(t, vptr).v

\* bit k of the 64-bit mask of a leaf: bit k % 32 of word k \div 32
LeafBit(mask, k) == TestBit(mask[(k \div 32) + 1], k % 32)

\* the mask the claim gives: voxel 8u + b is the one reached by descending by u,
\* then by b; a voxel the shape collides with is set by Link and cleared by Unlink
ExpectedLeaf(operation, shape, init, path) ==
  LET bits == {k \in 0..63 :
                 IF collides(shape, AABB_from(OctVox(SUPPORTED_LEVELS,
                                 descend(descend(path, k \div 8), k % 8))))
                 THEN operation = "Link"
                 ELSE LeafBit(init, k)}
  IN << WordFromBits({k \in 0..31 : k \in bits}),
        WordFromBits({k \in 0..31 : (k + 32) \in bits}) >>

\* C33: edit_leaf returns (None, 0) when the mask of the 64 voxels, each tested
\* once (voxel 8u + b at the path descended by u, then by b), is all zero; the
\* pointer it was given with the popcount when the mask is the one read; and
\* otherwise what find_or_add_leaf of the new mask returns, with its popcount,
\* the full leaf pointer with 64 where the mask is full.
C33_EditLeaf ==
  [][ last'.kind = "edit_leaf" =>
        \A init \in {InitLeaf(Table, last'.args[1])} :
        \A new \in {ExpectedLeaf(last'.operation, LeafShapes[last'.shape], init,
                                 last'.args[2])} :
          IF new = <<ZERO, ZERO>>
          THEN last'.ok /\ last'.v = None /\ last'.args[3] = 0 /\ TableNext = Table
          ELSE IF new = init
          THEN /\ last'.ok /\ last'.v = last'.args[1]
               /\ last'.args[3] = count_leaves(new)
               /\ TableNext = Table
          ELSE \A r \in {find_or_add_leaf(Table, FALSE, new)} :
                 /\ last'.ok = r.ok
                 /\ TableNext = r.t
                 /\ r.ok =>
                      /\ last'.v = r.v
                      /\ last'.args[3] = count_leaves(new)
                      /\ leaf(TableNext, last'.v) = Ok(new)
                      /\ new = FULL_LEAF =>
                           /\ last'.v = full_node_pointers[LEAF_LEVEL]
                           /\ last'.args[3] = 64
    ]_vars

\* Unlink of the only voxel of a stored leaf: no leaf is left.
C33_UnlinkedTheOnly ==
  /\ last.kind = "edit_leaf" /\ last.ok /\ last.operation = "Unlink"
  /\ last.args[1] # None
  /\ count_leaves(leaf(Table, last.args[1]).v) = 1
  /\ last.v = None /\ last.args[3] = 0

\* Link of the only voxel a stored leaf lacks: the full leaf.
C33_LinkedTheMissing ==
  /\ last.kind = "edit_leaf" /\ last.ok /\ last.operation = "Link"
  /\ last.args[1] # None
  /\ count_leaves(leaf(Table, last.args[1]).v) = 63
  /\ last.v = full_node_pointers[LEAF_LEVEL] /\ last.args[3] = 64

\* A leaf that was changed and stored: Unlink of one voxel of the full leaf.
C33_Stored ==
  /\ last.kind = "edit_leaf" /\ last.ok
  /\ last.args[1] = full_node_pointers[LEAF_LEVEL]
  /\ last.args[3] = 63
  /\ last.v \notin {None, last.args[1]}

(* ------------------------------------------------------------------ *)
(* C34: the predicates of the shapes, called on the cubes of the nodes  *)
(* ------------------------------------------------------------------ *)
\* Shape::new(centroid, extent) for both shapes
ShapeCentroids == { <<0, 0, 0>>, <<8, 8, 8>>, <<5, 1, 1>>, <<12, 8, 4>>, <<15, 15, 15>> }
ShapeExtents == {0, 1, 3, 8, 14, 28}
ShapeInputs ==
  { AABB_new(c, e) : c \in ShapeCentroids, e \in ShapeExtents }
    \cup { Sphere_new(c, e) : c \in ShapeCentroids, e \in ShapeExtents }

\* the nodes whose cube is tested: every node of the levels down to the leaves,
\* and the nodes and unit voxels below at the rims of the grid and of its halves
OctantRows(level) ==
  IF level <= LEAF_LEVEL THEN 0..(Pow2[level] - 1)
  ELSE { 0, Pow2[level - 1] - 1, Pow2[level - 1], Pow2[level] - 1 }

Octants ==
  UNION { { OctVox(level, <<x, y, z>>) :
              x \in OctantRows(level), y \in OctantRows(level), z \in OctantRows(level) } :
          level \in 0..SUPPORTED_LEVELS }

\* the unit voxels inside the cube of a node
UnitVoxels(ov) ==
  LET side == Pow2[ov.depth]
      row(i) == (ov.path[i] * side)..(ov.path[i] * side + side - 1)
  IN { OctVox(SUPPORTED_LEVELS, <<x, y, z>>) : x \in row(1), y \in row(2), z \in row(3) }

\* a call of one of the three predicates; the arguments and the answer are kept
\* with the call
Asked(kind, shape, after, ov, answer) ==
  /\ last' = [Call0 EXCEPT !.kind = kind, !.operation = after, !.root = root,
                           !.args = <<shape, ov, answer>>]
  /\ ops' = ops + 1
  /\ UNCHANGED <<pool, lut, hi, bucket_len, full_node_pointers, pool_mask,
                 page_table_mask, root, dev_pool, dev_lut, adding, published, staging>>

Collides(shape, ov) ==
  Asked("collides", shape, "", ov, collides(shape, AABB_from(ov)))

WillBeFull(shape, after, ov) ==
  Asked("will_be_full", shape, after, ov, will_be_full(shape, after, AABB_from(ov)))

WillBeEmpty(shape, after, ov) ==
  Asked("will_be_empty", shape, after, ov, will_be_empty(shape, after, AABB_from(ov)))

\* one call is made, of a table just made
Asking == Live /\ last.kind = "new"

NextShape ==
  \/ /\ Asking
     /\ \E shape \in ShapeInputs, ov \in Octants : Collides(shape, ov)
  \/ /\ Asking
     /\ \E shape \in ShapeInputs, after \in Operations, ov \in Octants :
          WillBeFull(shape, after, ov)
  \/ /\ Asking
     /\ \E shape \in ShapeInputs, after \in Operations, ov \in Octants :
          WillBeEmpty(shape, after, ov)

SpecShape == Init /\ [][NextShape]_vars

\* the shape collides with every unit voxel of the cube
CollidesWithAll(shape, ov) ==
  \A v \in UnitVoxels(ov) : collides(shape, AABB_from(v))

\* the shape collides with no unit voxel of the cube
CollidesWithNone(shape, ov) ==
  \A v \in UnitVoxels(ov) : ~collides(shape, AABB_from(v))

\* C34: a cube the shape does not collide with holds no unit voxel the shape
\* collides with; a cube will_be_full(Link) or will_be_empty(Unlink) holds of
\* holds only unit voxels the shape collides with; will_be_full is false for
\* Unlink and will_be_empty is false for Link.
C34_ShortCircuit ==
  /\ (last.kind = "collides" /\ ~last.args[3]) => CollidesWithNone(last.args[1], last.args[2])
  /\ (last.kind \in {"will_be_full", "will_be_empty"} /\ last.args[3]) =>
       CollidesWithAll(last.args[1], last.args[2])
  /\ (last.kind = "will_be_full" /\ last.operation = "Unlink") => ~last.args[3]
  /\ (last.kind = "will_be_empty" /\ last.operation = "Link") => ~last.args[3]

\* A sphere that will fill a cube of more than one voxel which it does not hold
\* the whole grid of.
C34_SphereFills ==
  /\ last.kind = "will_be_full" /\ last.args[3]
  /\ last.args[1].kind = "Sphere"
  /\ last.args[2].depth = LEAF_LEVELS
  /\ ~will_be_full(last.args[1], "Link", AABB_from(OctVox(0, <<0, 0, 0>>)))

\* A box that misses a cube next to one it collides with.
C34_BoxMisses ==
  /\ last.kind = "collides" /\ ~last.args[3]
  /\ last.args[1].kind = "AABB"
  /\ last.args[2].depth = LEAF_LEVELS
  /\ collides(last.args[1], AABB_from(OctVox(LEAF_LEVEL - 1,
        [i \in 1..3 |-> last.args[2].path[i] \div 2])))

(* ------------------------------------------------------------------ *)
(* C35: imports with a stop, and the visits an import remembers         *)
(* ------------------------------------------------------------------ *)
\* the sources imported: the two of Sources, whose nodes are shared, and the two
\* fixtures whose child indices point back to the root
MemoSources == Sources \o SubSeq(Fixtures, 1, 2)

\* the stops handed over: none, the root and the level below
MemoStops == { NoStop, Some(ZERO), Some(W(1)) }

\* the visits at the start of an import
NoVisits(bd) == [i \in 0..(Len(bd.pool) - 1) |-> UNSET]

\* the call of put that an import makes, with what it returns
put_of_import(t, strict, bd, stop) ==
  Let(stop_level(stop, SUPPORTED_LEVELS - bd.levels, TRUE), LAMBDA abs_stop :
    IF ~abs_stop.ok THEN PutErr(t, NoVisits(bd), abs_stop.err)
    ELSE put(t, NoVisits(bd), strict, bd.pool, abs_stop.v, SUPPORTED_LEVELS - bd.levels, 0,
             STACK_FRAMES))

\* an import; the level of the stop, the calls of find_or_add_* it made, the
\* voxel count and the visits of its put are kept with the call
ImportLogged(i, strict, stop) ==
  /\ Live /\ ops < MaxOps
  /\ \E r \in {import(Table, strict, MemoSources[i], stop, TRUE)},
        p \in {put_of_import(Table, strict, MemoSources[i], stop)} :
        /\ Called(r, [Call0 EXCEPT !.kind = "import_logged", !.source = i,
                        !.strict = strict, !.stop = stop,
                        !.level = SUPPORTED_LEVELS - MemoSources[i].levels,
                        !.args = << stop_level(stop, SUPPORTED_LEVELS - MemoSources[i].levels,
                                               TRUE).v,
                                    p.adds, p.c, p.visits >>])
        /\ root' = IF r.ok THEN r.v ELSE root

NextMemo ==
  \/ \E i \in 1..Len(MemoSources), strict \in BOOLEAN, stop \in MemoStops :
       ImportLogged(i, strict, stop)
  \/ \E operation \in Operations, i \in 1..Len(Shapes) : Edit(operation, i)

SpecMemo == Init /\ [][NextMemo]_vars

\* put of any index of the source at the level of the stop: the full node of the
\* level with its voxel count, nothing read of the source and nothing stored
StopCollapse(t, bd, level) ==
  \A idx \in 0..(Len(bd.pool) - 1) :
    put(t, NoVisits(bd), TRUE, bd.pool, level, level, idx, STACK_FRAMES)
      = Deepest(PutOk(t, NoVisits(bd), t.full_node_pointers[level],
                      IF COLOR_TREE_LEVELS <= level THEN Pow8[SUPPORTED_LEVELS - level]
                      ELSE None), level)

\* put of an index that the import has visited, at the level it was imported at:
\* the pointer remembered and the voxel count read from the node stored
Remembered(t, bd, visits) ==
  \A idx \in 0..(Len(bd.pool) - 1) :
    visits[idx] # UNSET =>
      \A level \in {vptr_to_lvl(visits[idx])} :
        put(t, visits, TRUE, bd.pool, None, level, idx, STACK_FRAMES)
          = Deepest(PutOk(t, visits, visits[idx],
                          IF level = LEAF_LEVEL THEN count_leaves(leaf(t, visits[idx]).v)
                          ELSE Shr8(get(t, visits[idx]).v)), level)

\* no source index has two calls of find_or_add_* in the sequence of calls
OncePerIndex(adds) ==
  \A j, k \in 1..Len(adds) : j # k => adds[j][2] # adds[k][2]

\* C35: with a stop, put of a source node at the level of the stop is the full
\* node of the level, with 8^(SUPPORTED_LEVELS - level) voxels in the color-tree
\* range, and the import calls find_or_add_* at no level at or below the stop; a
\* source index that was imported returns the pointer remembered and the count
\* read from the node stored, and no source index has two calls of find_or_add_*
\* in one import.
C35_StopAndMemo ==
  last.kind = "import_logged" =>
    /\ last.args[1] # None =>
         /\ StopCollapse(Table, MemoSources[last.source], last.args[1])
         /\ \A k \in 1..Len(last.args[2]) : last.args[2][k][1] < last.args[1]
         /\ last.args[1] = last.level =>
              /\ last.ok /\ last.v = full_node_pointers[last.level]
              /\ last.args[2] = <<>>
    /\ last.ok => Remembered(Table, MemoSources[last.source], last.args[4])
    /\ OncePerIndex(last.args[2])

\* The cyclic fixture of the test import_cyclical_graph is imported: index 0, the
\* root, is stored as a leaf where the node at 7 points back to it, and once more
\* as the root.
C35_ImportedTwice ==
  /\ last.kind = "import_logged" /\ last.ok /\ last.source = 3 /\ last.strict
  /\ last.stop = NoStop
  /\ \E j, k \in 1..Len(last.args[2]) :
       /\ j < k
       /\ last.args[2][j] = <<LEAF_LEVEL, 0>>
       /\ last.args[2][k] = <<0, 0>>

\* the sources whose indices do not point back: C35 as stated
MemoOfTrees == (last.kind = "import_logged" /\ last.source <= Len(Sources)) => C35_StopAndMemo

\* the stop and the visits remembered, whatever the source
StopAndRemembered ==
  last.kind = "import_logged" =>
    /\ last.args[1] # None =>
         /\ StopCollapse(Table, MemoSources[last.source], last.args[1])
         /\ \A k \in 1..Len(last.args[2]) : last.args[2][k][1] < last.args[1]
    /\ last.ok => Remembered(Table, MemoSources[last.source], last.args[4])

\* An import with a stop below the root: the children of the root are the full
\* node of the level of the stop, and a shared index was found visited.
MemoStopped ==
  /\ last.kind = "import_logged" /\ last.ok /\ last.source = 1
  /\ last.args[1] = 1
  /\ last.args[2] = << <<0, 0>> >>
  /\ last.v # full_node_pointers[0]

(* ------------------------------------------------------------------ *)
(* C36: the levels of the children stored                               *)
(* ------------------------------------------------------------------ *)
\* the sources imported: those of Sources, the cyclic fixture of the tests, and
\* two in which one index is a child on two levels:
\*   4: the root has the children 3 and 5; the node at 3 has the leaf at 5 as
\*      its child, so 5 is met on level 2 and then on level 1
\*   5: the root has the children 3 and 5; the node at 5 has the node at 3 as
\*      its child, so 3 is met on level 1 and then on level 2
LevelSources ==
  Sources \o
  << Fixtures[1],
     [levels |-> 4, pool |-> << W(3), W(3), W(5), W(1), W(5), W(1), ZERO >>],
     [levels |-> 4, pool |-> << W(3), W(3), W(5), W(1), W(7), W(1), W(3), ONES, ONES >>] >>

\* Converter::import (strict = FALSE) or import_strict of one of the sources
ImportSource(i, strict) ==
  /\ Live /\ ops < MaxOps
  /\ \E r \in {import(Table, strict, LevelSources[i], NoStop, TRUE)} :
        /\ Called(r, [Call0 EXCEPT !.kind = "import", !.source = i, !.strict = strict])
        /\ root' = IF r.ok THEN r.v ELSE root

NextLevels ==
  \/ \E i \in 1..Len(LevelSources), strict \in BOOLEAN : ImportSource(i, strict)
  \/ \E operation \in Operations, i \in 1..Len(Shapes) : Edit(operation, i)

SpecLevels == Init /\ [][NextLevels]_vars

\* the child pointers of the interior stored at an offset of a bucket
ChildrenAt(t, level, bucket, o) ==
  { VptrOf(get(t, BucketBase(level, bucket) + o + k).v) :
      k \in 1..(NodeLenAt(t, level, BucketBase(level, bucket) + o) - 1) }

\* the children of every interior of a level lie one level below, in allocated pages
LevelDiscipline(t, level) ==
  \A bucket \in 0..(buckets_per_level(level) - 1) :
    \A o \in Starts(t, level, bucket, 0) :
      \A child \in ChildrenAt(t, level, bucket, o) :
        /\ vptr_to_lvl(child) = level + 1
        /\ is_allocated(t, child \div PAGE_LEN) = Ok(TRUE)

\* C36: every child pointer stored in an interior of level L, made by bootstrap,
\* import or edit, is a pointer of level L + 1 into an allocated page, whatever
\* source the imports accepted.
C36_LevelDiscipline ==
  \A level \in 0..(LEAF_LEVEL - 1) : LevelDiscipline(Table, level)

\* import_strict has accepted the source in which the leaf at 5 is also a child
\* of the root: the root holds a pointer of the leaf level.
C36_LeafUnderRoot ==
  /\ last.kind = "import" /\ last.ok /\ last.strict /\ last.source = 4
  /\ vptr_to_lvl(root) = 0
  /\ \E k \in 2..Len(interior(Table, root).v) :
       vptr_to_lvl(VptrOf(interior(Table, root).v[k])) = LEAF_LEVEL

\* import_strict has accepted the source in which the node at 3 is also a child
\* on the leaf level: a node of level 1 holds a pointer of level 1.
C36_InteriorAsLeaf ==
  /\ last.kind = "import" /\ last.ok /\ last.strict /\ last.source = 5
  /\ ~LevelDiscipline(Table, LEAF_LEVEL - 1)

(* ------------------------------------------------------------------ *)
(* C37: the pointer 0                                                   *)
(* ------------------------------------------------------------------ *)
\* C37: every pointer returned by add_leaf, add_interior, find_or_add_leaf or
\* find_or_add_interior is non-zero, whatever the bucket of the node, and every
\* full node pointer is non-zero after bootstrap.
C37_NonZero ==
  /\ (last.kind \in InteriorCalls \cup LeafCalls /\ last.ok) => last.v # 0
  /\ \A level \in 0..LEAF_LEVEL : full_node_ptr(Table, level).v # 0

\* The first node of the first bucket of level 0: add_interior has stored it at
\* the pointer 0 and returned 0.
C37_StoredAtZero ==
  /\ last.kind = "add_interior" /\ last.ok /\ last.level = 0
  /\ bucket_from_hash(0, last.hash) = 0
  /\ last.v = 0
  /\ get(Table, 0) = Ok(last.node[1])

\* the pointers returned for the nodes of the other buckets, and the full node
\* pointers, are non-zero
NonZeroElsewhere ==
  /\ (last.kind \in InteriorCalls \cup LeafCalls /\ last.ok /\ last.v = 0) =>
       (last.level = 0 /\ get(Table, 0) = Ok(last.node[1]))
  /\ \A level \in 0..LEAF_LEVEL : full_node_ptr(Table, level).v # 0

(* ------------------------------------------------------------------ *)
(* lib.rs add_leaf / add_interior: the lengths of the buckets           *)
(* ------------------------------------------------------------------ *)
\* <<level, bucket>> of every bucket of the table
BucketsOfLevels ==
  UNION { { <<level, bucket>> : bucket \in 0..(buckets_per_level(level) - 1) }
          : level \in 0..LEAF_LEVEL }

\* the virtual pages that overlap the first len words of the bucket
PrefixPages(level, bucket, len) ==
  { (new_vptr_unbounded(level, bucket, 0).v + offset) \div PAGE_LEN : offset \in 0..(len - 1) }

\* C38: in every state the length of every bucket is at most new_bucket_len of
\* its level, every virtual page that overlaps the words [0, length) of a bucket
\* is allocated, and the length of every bucket of the leaf level is even.
C38_BucketLengths ==
  \A b \in BucketsOfLevels :
     \A len \in {bucket_len_of(Table, b[1], b[2])} :
        /\ len <= new_bucket_len(b[1])
        /\ \A page \in PrefixPages(b[1], b[2], len) : is_allocated(Table, page) = Ok(TRUE)
        /\ (b[1] = LEAF_LEVEL => len % 2 = 0)

\* a bucket of an interior level has been filled to its capacity by a call that
\* failed, and a bucket of the leaf level holds leaves
C38_FilledBucket ==
  /\ ~last.ok /\ last.kind = "add_interior"
  /\ \E b \in BucketsOfLevels :
        /\ b[1] = last.level
        /\ bucket_len_of(Table, b[1], b[2]) = new_bucket_len(b[1])
        /\ Cardinality(PrefixPages(b[1], b[2], new_bucket_len(b[1]))) > 1

(* ------------------------------------------------------------------ *)
(* lib.rs add_leaf / add_interior / find_or_add_*: what a call that     *)
(* fails leaves behind                                                  *)
(* ------------------------------------------------------------------ *)
\* hi, the page table, the bucket lengths and the pool are as before the step
SameStorage ==
  /\ hi' = hi
  /\ lut' = lut
  /\ bucket_len' = bucket_len
  /\ pool' = pool

\* a step that is one call of add_leaf, add_interior, find_or_add_leaf or
\* find_or_add_interior and returns an error
InsertFails ==
  /\ last' # last
  /\ last'.kind \in InteriorCalls \cup LeafCalls
  /\ ~last'.ok

\* C39: when one call of add_leaf, add_interior, find_or_add_leaf or
\* find_or_add_interior returns an error, hi, the page table, every bucket length
\* and the pool are the same as before the call.
C39_FailureAtomic == [][InsertFails => SameStorage]_vars

\* add_leaf has returned the overflow error, and the bucket of the leaf holds
\* the two words of the leaf as its last
C39_OverflowKeepsLeaf ==
  /\ ~last.ok /\ last.kind = "add_leaf"
  /\ last.err = "Overflowing bucket on leaf level!"
  /\ \A b \in {bucket_from_hash(LEAF_LEVEL, last.hash)} :
        /\ bucket_len_of(Table, LEAF_LEVEL, b) = new_bucket_len(LEAF_LEVEL)
        /\ get(Table, new_vptr_unbounded(LEAF_LEVEL, b, new_bucket_len(LEAF_LEVEL) - 2).v)
             = Ok(last.node[1])

\* a call that fails before its first store (validation, the offset of the new
\* pointer out of bounds) does leave the storage as it was
FailureBeforeStore ==
  [][InsertFails /\ last'.err \in InvalidNodeErrors \cup OffsetOutOfBounds => SameStorage]_vars

\* a call has failed in validation
FailedBeforeStore == ~last.ok /\ last.kind \in InteriorCalls /\ last.err \in InvalidNodeErrors

(* ------------------------------------------------------------------ *)
(* basic_dag.rs: BasicDAG::find_node and seek, asked for a node of a    *)
(* source                                                               *)
(* ------------------------------------------------------------------ *)
\* the sources searched: the two of the imports, and a root whose second and
\* seventh child are interiors over leaves
SeekSources ==
  Sources \o
  << [levels |-> 4,
      pool |-> << W(66), W(3), W(6), W(36), W(9), W(11), W(128), W(13),
                  <<0, 255>>, ZERO, W(1), ZERO, ONES, ONES, W(7) >>] >>

\* the targets asked for: every depth up to SUPPORTED_LEVELS, every path of the
\* grid two levels down
SeekTargets ==
  { [depth |-> d, path |-> <<x, y, z>>] : d \in 0..SUPPORTED_LEVELS,
                                          x \in 0..3, y \in 0..3, z \in 0..3 }

\* `pool[i] as usize`
AsUsize(w) == w[1] * HALF + w[2]

SeekSome(idx) == [ok |-> TRUE, v |-> <<idx>>]
SeekNone == [ok |-> TRUE, v |-> <<>>]
SeekErr == [ok |-> FALSE, v |-> <<>>]
SeekPanic == [ok |-> FALSE, v |-> <<PANIC>>]

RECURSIVE seek(_, _, _, _), SeekChildren(_, _, _, _, _, _)

\* the loop of seek over the eight children, at child `child` with `offset`
SeekChildren(bd, target, state, idx, child, offset) ==
  IF child = 8 THEN SeekNone
  ELSE IF (AsU8(bd.pool[idx + 1]) \div Pow2[child]) % 2 = 0
    THEN SeekChildren(bd, target, state, idx, child + 1, offset)
  ELSE IF idx + offset >= Len(bd.pool) THEN SeekPanic
  ELSE Let(descended(state, child), LAMBDA st :
       Let(AsUsize(bd.pool[idx + offset + 1]), LAMBDA i :
         IF target = st THEN SeekSome(i)
         ELSE IF ~is_child(st, target) \/ st.depth = 2 THEN SeekNone
         ELSE Let(seek(bd, target, st, i), LAMBDA r :
                IF ~r.ok \/ r.v # <<>> THEN r
                ELSE SeekChildren(bd, target, state, idx, child + 1, offset + 1))))

\* BasicDAG::seek
seek(bd, target, state, idx) ==
  IF idx >= Len(bd.pool) THEN SeekErr
  ELSE SeekChildren(bd, target, state, idx, 0, 1)

\* BasicDAG::find_node: Some(idx) is <<idx>>, None is <<>>; the error of seek
\* becomes None
find_node(bd, target) ==
  IF target.depth < 2 THEN SeekNone
  ELSE Let(seek(bd, target, OctVox(SUPPORTED_LEVELS - bd.levels, <<0, 0, 0>>), 0), LAMBDA r :
         IF r = SeekErr THEN SeekNone ELSE r)

FindNode(i, target) ==
  /\ \E r \in {find_node(SeekSources[i], target)} :
        last' = [Call0 EXCEPT !.kind = "find_node", !.source = i, !.ok = r.ok,
                              !.args = <<target, r.v>>,
                              !.root = root, !.stages = last.stages]
  /\ UNCHANGED <<pool, lut, hi, bucket_len, full_node_pointers, pool_mask,
                 page_table_mask, root, dev_pool, dev_lut, ops, adding, published,
                 staging>>

\* one search a behaviour
NextSeek ==
  /\ Live /\ last.kind = "new"
  /\ \E i \in 1..Len(SeekSources), target \in SeekTargets : FindNode(i, target)

SpecSeek == Init /\ [][NextSeek]_vars

\* the child taken at each level on the way from a root of the depth given down
\* to the target: the bits of the rows of its path, the highest first
PathChildren(target, depth) ==
  [j \in 1..(depth - target.depth) |->
     LET shift == depth - target.depth - j
     IN 4 * ((target.path[1] \div Pow2[shift]) % 2)
        + 2 * ((target.path[2] \div Pow2[shift]) % 2)
        + ((target.path[3] \div Pow2[shift]) % 2)]

\* the target lies strictly below the root of the source
BelowRoot(bd, target) ==
  /\ target.depth < bd.levels
  /\ \A r \in 1..3 : target.path[r] < Pow2[bd.levels - target.depth]

\* the index of the node that the children lead to from idx, <<>> when a child
\* is absent
RECURSIVE NodeAt(_, _, _)
NodeAt(bd, idx, children) ==
  IF Len(children) = 0 THEN <<idx>>
  ELSE IF idx >= Len(bd.pool) THEN <<>>
  ELSE LET mask == AsU8(bd.pool[idx + 1])
           c == Head(children)
       IN IF (mask \div Pow2[c]) % 2 = 0 THEN <<>>
          ELSE NodeAt(bd, AsUsize(bd.pool[idx + 1 + PopTable[mask % Pow2[c]] + 1]),
                      Tail(children))

\* the node of the source at the path of the target
SourceNode(bd, target) ==
  IF target.depth >= 2 /\ BelowRoot(bd, target)
  THEN NodeAt(bd, 0, PathChildren(target, bd.levels))
  ELSE <<>>

\* C40: find_node(target) returns Some(index of the source node at the path of the
\* target) for every target of depth >= 2 strictly below the root whose path
\* exists in the source, whichever of the eight children it lies in at each
\* level; it returns None for the root, for a target of depth < 2 and for a path
\* that has no node.
C40_FindNode ==
  last.kind = "find_node" =>
    last.args[2] = SourceNode(SeekSources[last.source], last.args[1])

\* find_node has returned None for a node of the source that is the second
\* child of the root
C40_SecondChildMissed ==
  /\ last.kind = "find_node" /\ last.source = 1
  /\ last.args[1] = [depth |-> 3, path |-> <<0, 0, 1>>]
  /\ SourceNode(SeekSources[1], last.args[1]) = <<3>>
  /\ last.args[2] = <<>>

\* the children on the way to the target are each the first child of their node
RECURSIVE FirstChildren(_, _, _)
FirstChildren(bd, idx, children) ==
  \/ Len(children) = 0
  \/ /\ idx < Len(bd.pool)
     /\ \A mask \in {AsU8(bd.pool[idx + 1])} :
          /\ (mask \div Pow2[Head(children)]) % 2 = 1
          /\ mask % Pow2[Head(children)] = 0
          /\ FirstChildren(bd, AsUsize(bd.pool[idx + 2]), Tail(children))

\* what find_node does return: the node of the source when the way to it takes
\* the first child of every node, None for every other target
FirstBranchOnly ==
  last.kind = "find_node" =>
    \A bd \in {SeekSources[last.source]}, target \in {last.args[1]} :
      last.args[2] = IF SourceNode(bd, target) # <<>>
                        /\ FirstChildren(bd, 0, PathChildren(target, bd.levels))
                     THEN SourceNode(bd, target) ELSE <<>>

\* find_node has found a node two levels below the root
FoundGrandchild ==
  /\ last.kind = "find_node" /\ last.args[1].depth = 2 /\ last.args[2] # <<>>
  /\ SeekSources[last.source].levels = 4

====
